---- MODULE Spec2Model ----
(***************************************************************************)
(* A model of swagger_to_word.py: the recursive schema formatter           *)
(* (format_schema), the parameter merge of one operation, and the          *)
(* per-file document assembly with its main loop.                          *)
(***************************************************************************)
EXTENDS Integers, Sequences, FiniteSets, TLC

(***************************************************************************)
(* State.                                                                  *)
(*   inSchema, inIndent, fmtPc, fmtResult: one call of format_schema       *)
(*   pathParams, opParams, tablePc, tableDoc: the parameters of one        *)
(*     operation and the table built from them                             *)
(*   api_files .. files_failed_count: the main loop and the document of    *)
(*     the file being processed                                            *)
(*   strict: whether the document library raises on a text that is not a   *)
(*     clean string                                                        *)
(***************************************************************************)
VARIABLES inSchema, inIndent, fmtPc, fmtResult,
          pathParams, opParams, tablePc, tableDoc,
          api_files, fileIdx, pc, document, handed, failure, result, saves,
          files_processed_count, files_failed_count, strict

fmtVars == <<inSchema, inIndent, fmtPc, fmtResult>>

tableVars == <<pathParams, opParams, tablePc, tableDoc>>

mainVars == <<api_files, fileIdx, pc, document, handed, failure, result, saves,
              files_processed_count, files_failed_count>>

vars == <<fmtVars, tableVars, mainVars, strict>>

(***************************************************************************)
(* Decoded JSON/YAML values.  A value is a pair <<tag, payload>>:          *)
(*   <<"none", 0>>        None                                             *)
(*   <<"str", s>>         a string                                         *)
(*   <<"int", n>>         an integer                                       *)
(*   <<"bool", b>>        a boolean                                        *)
(*   <<"date", n>>        a YAML timestamp (not JSON serialisable)         *)
(*   <<"list", items>>    a sequence of values                             *)
(*   <<"dict", pairs>>    a mapping: the sequence of <<key, value>> pairs  *)
(*                        in insertion order, keys distinct                *)
(***************************************************************************)
PyNone == <<"none", 0>>
PyStr(s) == <<"str", s>>
PyInt(n) == <<"int", n>>
PyBool(b) == <<"bool", b>>
PyDate(n) == <<"date", n>>
PyList(items) == <<"list", items>>
PyDict(pairs) == <<"dict", pairs>>

IsDict(v) == v[1] = "dict"
IsList(v) == v[1] = "list"
IsStr(v) == v[1] = "str"
IsNone(v) == v[1] = "none"

\* key in d
Has(d, k) == \E i \in 1..Len(d[2]) : d[2][i][1] = k

\* d[k], for a key that is present
Item(d, k) == d[2][CHOOSE i \in 1..Len(d[2]) : d[2][i][1] = k][2]

\* d.get(k, default)
Get(d, k, default) == IF Has(d, k) THEN Item(d, k) ELSE default

\* bool(v)
Truthy(v) ==
    CASE v[1] = "none" -> FALSE
      [] v[1] = "str" -> v[2] # ""
      [] v[1] = "int" -> v[2] # 0
      [] v[1] = "bool" -> v[2]
      [] v[1] = "date" -> TRUE
      [] v[1] = "list" -> Len(v[2]) > 0
      [] v[1] = "dict" -> Len(v[2]) > 0

\* type(v), as the f-strings print it
TypeOf(v) ==
    CASE v[1] = "none" -> "<class 'NoneType'>"
      [] v[1] = "str" -> "<class 'str'>"
      [] v[1] = "int" -> "<class 'int'>"
      [] v[1] = "bool" -> "<class 'bool'>"
      [] v[1] = "date" -> "<class 'datetime.date'>"
      [] v[1] = "list" -> "<class 'list'>"
      [] v[1] = "dict" -> "<class 'dict'>"

\* iter(v) succeeds
Iterable(v) == v[1] \in {"str", "list", "dict"}

\* list(v) for an iterable: the characters of a string, the keys of a mapping
Elements(v) ==
    CASE v[1] = "str" -> [i \in 1..Len(v[2]) |-> PyStr(SubSeq(v[2], i, i))]
      [] v[1] = "list" -> v[2]
      [] v[1] = "dict" -> [i \in 1..Len(v[2]) |-> PyStr(v[2][i][1])]

\* a in b for two strings
IsSubstr(a, b) ==
    \E i \in 0..(Len(b) - Len(a)) : SubSeq(b, i + 1, i + Len(a)) = a

\* the walk of json.dumps over a value: it fails on a value that is not
\* JSON serialisable
RECURSIVE Serializable(_)
Serializable(v) ==
    CASE v[1] = "date" -> FALSE
      [] v[1] = "list" -> \A i \in 1..Len(v[2]) : Serializable(v[2][i])
      [] v[1] = "dict" -> \A i \in 1..Len(v[2]) : Serializable(v[2][i][2])
      [] OTHER -> TRUE

(***************************************************************************)
(* Text.  Strings are built as the f-strings build them; "\f" stands for   *)
(* the control characters below code point 32 that are neither tab,        *)
(* newline nor carriage return.                                            *)
(***************************************************************************)
\* ord(c) < 32, for the characters the model uses
BelowSpace(c) == c \in {"\t", "\n", "\r", "\f"}

\* ord(c) >= 32 or c in ('\t', '\n', '\r')
Kept(c) == ~BelowSpace(c) \/ c \in {"\t", "\n", "\r"}

\* "".join(c for c in text if ord(c) >= 32 or c in ('\t', '\n', '\r'))
RECURSIVE Sanitize(_)
Sanitize(text) ==
    IF Len(text) = 0 THEN ""
    ELSE (IF Kept(SubSeq(text, 1, 1)) THEN SubSeq(text, 1, 1) ELSE "")
         \o Sanitize(SubSeq(text, 2, Len(text)))

UpperCase == "ABCDEFGHIJKLMNOPQRSTUVWXYZ"
LowerCase == "abcdefghijklmnopqrstuvwxyz"

\* one character, mapped from one alphabet to the other
MapChar(c, from, to) ==
    IF \E i \in 1..Len(from) : SubSeq(from, i, i) = c
    THEN LET i == CHOOSE i \in 1..Len(from) : SubSeq(from, i, i) = c
         IN  SubSeq(to, i, i)
    ELSE c

RECURSIVE MapChars(_, _, _)
MapChars(text, from, to) ==
    IF Len(text) = 0 THEN ""
    ELSE MapChar(SubSeq(text, 1, 1), from, to)
         \o MapChars(SubSeq(text, 2, Len(text)), from, to)

\* str.upper(), str.lower()
Upper(text) == MapChars(text, LowerCase, UpperCase)
Lower(text) == MapChars(text, UpperCase, LowerCase)

\* str.endswith(suffix)
EndsWith(text, suffix) ==
    /\ Len(text) >= Len(suffix)
    /\ SubSeq(text, Len(text) - Len(suffix) + 1, Len(text)) = suffix

\* the last index of a character in a text, 0 when it does not occur
LastIndexOf(text, c) ==
    IF \E i \in 1..Len(text) : SubSeq(text, i, i) = c
    THEN CHOOSE i \in 1..Len(text) :
            /\ SubSeq(text, i, i) = c
            /\ \A j \in (i + 1)..Len(text) : SubSeq(text, j, j) # c
    ELSE 0

\* os.path.basename(filepath)
Basename(filepath) ==
    SubSeq(filepath, LastIndexOf(filepath, "/") + 1, Len(filepath))

\* os.path.splitext(name)[0]: the name without its last extension
Stem(name) ==
    IF LastIndexOf(name, ".") > 1
    THEN SubSeq(name, 1, LastIndexOf(name, ".") - 1)
    ELSE name

\* f"{base_name}_api_doc.docx"
OutputFilename(filepath) == Stem(Basename(filepath)) \o "_api_doc.docx"

Digits == "0123456789"

\* repr of a string: quoted, control characters escaped
RECURSIVE Escaped(_)
Escaped(text) ==
    IF Len(text) = 0 THEN ""
    ELSE (CASE SubSeq(text, 1, 1) = "\f" -> "\\x0c"
            [] SubSeq(text, 1, 1) = "\t" -> "\\t"
            [] SubSeq(text, 1, 1) = "\n" -> "\\n"
            [] SubSeq(text, 1, 1) = "\r" -> "\\r"
            [] OTHER -> SubSeq(text, 1, 1))
         \o Escaped(SubSeq(text, 2, Len(text)))

\* repr(v) and str(v); the integers of the model are single digits
RECURSIVE Repr(_)
RECURSIVE ReprItems(_)
RECURSIVE ReprPairs(_)
ReprItems(items) ==
    IF Len(items) = 0 THEN ""
    ELSE IF Len(items) = 1 THEN Repr(items[1])
    ELSE Repr(items[1]) \o ", " \o ReprItems(Tail(items))

ReprPairs(pairs) ==
    IF Len(pairs) = 0 THEN ""
    ELSE ("'" \o pairs[1][1] \o "': " \o Repr(pairs[1][2]))
         \o (IF Len(pairs) = 1 THEN "" ELSE ", " \o ReprPairs(Tail(pairs)))

Repr(v) ==
    CASE v[1] = "none" -> "None"
      [] v[1] = "str" -> "'" \o Escaped(v[2]) \o "'"
      [] v[1] = "int" -> SubSeq(Digits, v[2] + 1, v[2] + 1)
      [] v[1] = "bool" -> IF v[2] THEN "True" ELSE "False"
      [] v[1] = "date" -> "datetime.date(2020, 1, 1)"
      [] v[1] = "list" -> "[" \o ReprItems(v[2]) \o "]"
      [] v[1] = "dict" -> "{" \o ReprPairs(v[2]) \o "}"

\* str(v), also what an f-string interpolates
ToStr(v) ==
    CASE v[1] = "str" -> v[2]
      [] v[1] = "date" -> "2020-01-01"
      [] OTHER -> Repr(v)

\* "  " * n
RECURSIVE Spaces(_)
Spaces(n) == IF n = 0 THEN "" ELSE "  " \o Spaces(n - 1)

\* "\n".join(lines), for a sequence of strings
RECURSIVE JoinLines(_)
JoinLines(lines) ==
    IF Len(lines) = 0 THEN ""
    ELSE IF Len(lines) = 1 THEN lines[1]
    ELSE lines[1] \o "\n" \o JoinLines(Tail(lines))

\* json.dumps of a string
RECURSIVE JsonEscaped(_)
JsonEscaped(text) ==
    IF Len(text) = 0 THEN ""
    ELSE (CASE SubSeq(text, 1, 1) = "\f" -> "\\f"
            [] SubSeq(text, 1, 1) = "\t" -> "\\t"
            [] SubSeq(text, 1, 1) = "\n" -> "\\n"
            [] SubSeq(text, 1, 1) = "\r" -> "\\r"
            [] SubSeq(text, 1, 1) = "\"" -> "\\\""
            [] OTHER -> SubSeq(text, 1, 1))
         \o JsonEscaped(SubSeq(text, 2, Len(text)))

\* the last line of a block, with a comma unless it ends the container
WithComma(lines, last) ==
    IF last THEN lines
    ELSE [lines EXCEPT ![Len(lines)] = @ \o ","]

\* json.dumps(v, indent=2, ensure_ascii=False).splitlines() of a serialisable
\* value nested depth levels deep; the first line carries no indentation
RECURSIVE JsonLines(_, _)
RECURSIVE JsonItems(_, _)
RECURSIVE JsonPairs(_, _)
JsonItems(items, depth) ==
    IF Len(items) = 0 THEN <<>>
    ELSE LET block == JsonLines(items[1], depth)
         IN  WithComma([block EXCEPT ![1] = Spaces(depth) \o @], Len(items) = 1)
             \o JsonItems(Tail(items), depth)

JsonPairs(pairs, depth) ==
    IF Len(pairs) = 0 THEN <<>>
    ELSE LET block == JsonLines(pairs[1][2], depth)
         IN  WithComma([block EXCEPT ![1] =
                            Spaces(depth) \o "\"" \o JsonEscaped(pairs[1][1]) \o "\": " \o @],
                       Len(pairs) = 1)
             \o JsonPairs(Tail(pairs), depth)

JsonLines(v, depth) ==
    CASE v[1] = "none" -> <<"null">>
      [] v[1] = "str" -> <<"\"" \o JsonEscaped(v[2]) \o "\"">>
      [] v[1] = "int" -> <<SubSeq(Digits, v[2] + 1, v[2] + 1)>>
      [] v[1] = "bool" -> <<IF v[2] THEN "true" ELSE "false">>
      [] v[1] = "list" ->
            IF Len(v[2]) = 0 THEN <<"[]">>
            ELSE <<"[">> \o JsonItems(v[2], depth + 1) \o <<Spaces(depth) \o "]">>
      [] v[1] = "dict" ->
            IF Len(v[2]) = 0 THEN <<"{}">>
            ELSE <<"{">> \o JsonPairs(v[2], depth + 1) \o <<Spaces(depth) \o "}">>

\* text[:n]
Truncate(text, n) == SubSeq(text, 1, IF Len(text) < n THEN Len(text) ELSE n)

(***************************************************************************)
(* Results of a call: <<"ok", lines>> or <<"raise", exception>>.  A line   *)
(* is <<indent, template, args>>: the f-string's template after the        *)
(* indent prefix, and the values it interpolates.                          *)
(***************************************************************************)
Ok(lines) == <<"ok", lines>>
Raise(e) == <<"raise", e>>
Raised(r) == r[1] = "raise"
Line(indent, template, args) == <<indent, template, args>>

\* statements in sequence: the first exception ends the call
Cat(r1, r2) ==
    IF Raised(r1) THEN r1
    ELSE IF Raised(r2) THEN r2
    ELSE Ok(r1[2] \o r2[2])

\* sep.join(v): TypeError unless v is an iterable of strings
RECURSIVE JoinStrs(_)
JoinStrs(items) ==
    IF Len(items) = 0 THEN ""
    ELSE IF Len(items) = 1 THEN items[1][2]
    ELSE items[1][2] \o ", " \o JoinStrs(Tail(items))

PyJoin(v) ==
    IF ~Iterable(v) THEN Raise("TypeError")
    ELSE IF \E i \in 1..Len(Elements(v)) : ~IsStr(Elements(v)[i])
         THEN Raise("TypeError")
    ELSE Ok(JoinStrs(Elements(v)))

\* name in v: <<"ok", bool>> or TypeError for a value that is no container
PyIn(name, v) ==
    CASE v[1] = "list" -> Ok(\E i \in 1..Len(v[2]) : v[2][i] = PyStr(name))
      [] v[1] = "str" -> Ok(IsSubstr(name, v[2]))
      [] v[1] = "dict" -> Ok(Has(v, name))
      [] OTHER -> Raise("TypeError")

(***************************************************************************)
(* format_schema(schema, indent)                                           *)
(***************************************************************************)
RECURSIVE format_schema(_, _)
RECURSIVE FormatEach(_, _)
RECURSIVE FormatProperties(_, _, _)

\* for item in items: lines.extend(format_schema(item, indent))
FormatEach(items, indent) ==
    IF Len(items) = 0 THEN Ok(<<>>)
    ELSE Cat(format_schema(items[1], indent), FormatEach(Tail(items), indent))

\* the non-mapping inputs: a list, None, anything else
FormatNonDict(schema, indent) ==
    IF IsList(schema)
    THEN Cat(Ok(<<Line(indent, "Schema list:", <<>>)>>),
             FormatEach(schema[2], indent + 1))
    ELSE IF IsNone(schema)
    THEN Ok(<<Line(indent, "Schema is null", <<>>)>>)
    ELSE Ok(<<Line(indent, "Invalid schema format: {} - Content: {}",
                   <<PyStr(TypeOf(schema)), PyStr(Truncate(ToStr(schema), 100))>>)>>)

\* the description line, then the title line, each when truthy
DescriptionTitle(schema, indent) ==
    LET description == Get(schema, "description", PyNone)
        title == Get(schema, "title", PyNone)
    IN  Ok((IF Truthy(description)
            THEN <<Line(indent, "Description: {}", <<description>>)>>
            ELSE <<>>)
           \o
           (IF Truthy(title)
            THEN <<Line(indent, "Title: {}", <<title>>)>>
            ELSE <<>>))

\* the keys next to $ref, printed flat in the mapping's own order
RECURSIVE RefSiblings(_, _)
RefSiblings(pairs, indent) ==
    IF Len(pairs) = 0 THEN <<>>
    ELSE (IF pairs[1][1] \notin {"$ref", "description", "title"}
          THEN <<Line(indent, "{}: {}", <<PyStr(pairs[1][1]), pairs[1][2]>>)>>
          ELSE <<>>)
         \o RefSiblings(Tail(pairs), indent)

\* a variant that prints the sibling keys before the reference
RefBranchSiblingsFirst(schema, indent) ==
    Ok(RefSiblings(schema[2], indent)
       \o <<Line(indent, "Reference: {}", <<Item(schema, "$ref")>>)>>)

RefBranch(schema, indent) ==
    Ok(<<Line(indent, "Reference: {}", <<Item(schema, "$ref")>>)>>
       \o RefSiblings(schema[2], indent))

\* a variant that visits anyOf first
CompositionKeysSwapped == <<"anyOf", "allOf", "oneOf">>

\* the order in which the composition keywords are visited
CompositionKeys == <<"allOf", "anyOf", "oneOf">>

HasComposition(schema) ==
    \E i \in 1..Len(CompositionKeys) : Has(schema, CompositionKeys[i])

\* one keyword: its header, then its elements or the diagnostic
CompositionOf(schema, key, indent) ==
    IF ~Has(schema, key) THEN Ok(<<>>)
    ELSE Cat(Ok(<<Line(indent, "{}:", <<PyStr(key)>>)>>),
             IF IsList(Item(schema, key))
             THEN FormatEach(Item(schema, key)[2], indent + 1)
             ELSE Ok(<<Line(indent, "  Invalid '{}' format: Expected list, got {}",
                            <<PyStr(key), PyStr(TypeOf(Item(schema, key)))>>)>>))

RECURSIVE CompositionFrom(_, _, _)
CompositionFrom(schema, keys, indent) ==
    IF Len(keys) = 0 THEN Ok(<<>>)
    ELSE Cat(CompositionOf(schema, keys[1], indent),
             CompositionFrom(schema, Tail(keys), indent))

CompositionBranch(schema, indent) ==
    CompositionFrom(schema, CompositionKeys, indent)

\* the "Required:" line of an object
RequiredLine(required_props, indent) ==
    IF ~Truthy(required_props) THEN Ok(<<>>)
    ELSE IF Raised(PyJoin(required_props)) THEN PyJoin(required_props)
    ELSE Ok(<<Line(indent, "Required: {}", <<PyStr(PyJoin(required_props)[2])>>)>>)

\* a variant that never marks a property as required
PropertyBulletPlain(prop_name, required_props, indent) ==
    IF Raised(PyIn(prop_name, required_props)) THEN PyIn(prop_name, required_props)
    ELSE Ok(<<Line(indent, "  - {}{}:", <<PyStr(prop_name), PyStr("")>>)>>)

\* the bullet line of one property
PropertyBullet(prop_name, required_props, indent) ==
    IF Raised(PyIn(prop_name, required_props)) THEN PyIn(prop_name, required_props)
    ELSE Ok(<<Line(indent, "  - {}{}:",
                   <<PyStr(prop_name),
                     PyStr(IF PyIn(prop_name, required_props)[2]
                           THEN " (required)" ELSE "")>>)>>)

\* for prop_name, prop_schema in schema['properties'].items()
FormatProperties(pairs, required_props, indent) ==
    IF Len(pairs) = 0 THEN Ok(<<>>)
    ELSE Cat(Cat(PropertyBullet(pairs[1][1], required_props, indent),
                 format_schema(pairs[1][2], indent + 2)),
             FormatProperties(Tail(pairs), required_props, indent))

PropertiesBlock(schema, required_props, indent) ==
    IF Has(schema, "properties") /\ IsDict(Item(schema, "properties"))
    THEN Cat(Ok(<<Line(indent, "Properties:", <<>>)>>),
             FormatProperties(Item(schema, "properties")[2], required_props, indent))
    ELSE IF Has(schema, "properties")
    THEN Ok(<<Line(indent, "Properties: Invalid format ({})",
                   <<PyStr(TypeOf(Item(schema, "properties")))>>)>>)
    ELSE Ok(<<>>)

AdditionalBlock(schema, indent) ==
    LET additional_props == Get(schema, "additionalProperties", PyNone)
    IN  IF IsNone(additional_props) THEN Ok(<<>>)
        ELSE Cat(Ok(<<Line(indent, "Additional Properties:", <<>>)>>),
                 IF IsDict(additional_props)
                 THEN format_schema(additional_props, indent + 2)
                 ELSE Ok(<<Line(indent, "  Allowed: {}", <<additional_props>>)>>))

ObjectBranch(schema, indent) ==
    LET required_props == Get(schema, "required", PyList(<<>>))
    IN  Cat(Cat(Cat(Ok(<<Line(indent, "Type: object", <<>>)>>),
                    RequiredLine(required_props, indent)),
                PropertiesBlock(schema, required_props, indent)),
            AdditionalBlock(schema, indent))

ArrayBranch(schema, indent) ==
    Cat(Ok(<<Line(indent, "Type: array", <<>>)>>),
        IF Has(schema, "items")
        THEN Cat(Ok(<<Line(indent, "Items:", <<>>)>>),
                 format_schema(Item(schema, "items"), indent + 1))
        ELSE Ok(<<Line(indent, "Items: (Not specified)", <<>>)>>))

\* map(str, items)
StrEach(items) == [i \in 1..Len(items) |-> PyStr(ToStr(items[i]))]

\* every line of a block behind the indent
Indented(lines, indent) == [i \in 1..Len(lines) |-> Spaces(indent) \o lines[i]]

\* a constraint printed as it is
LeafField(schema, key, template, indent) ==
    IF Has(schema, key)
    THEN Ok(<<Line(indent, template, <<Item(schema, key)>>)>>)
    ELSE Ok(<<>>)

\* ', '.join(map(str, enum)): TypeError when enum cannot be iterated
EnumField(schema, indent) ==
    IF ~Has(schema, "enum") THEN Ok(<<>>)
    ELSE IF ~Iterable(Item(schema, "enum")) THEN Raise("TypeError")
    ELSE Ok(<<Line(indent, "Enum: {}",
                   <<PyStr(JoinStrs(StrEach(Elements(Item(schema, "enum")))))>>)>>)

LeafBranch(schema, schema_type, indent) ==
    Cat(Cat(Cat(Cat(Cat(Cat(Cat(Cat(
        Ok(<<Line(indent, "Type: {}", <<schema_type>>)>>),
        LeafField(schema, "format", "Format: {}", indent)),
        EnumField(schema, indent)),
        LeafField(schema, "pattern", "Pattern: {}", indent)),
        LeafField(schema, "minLength", "MinLength: {}", indent)),
        LeafField(schema, "maxLength", "MaxLength: {}", indent)),
        LeafField(schema, "minimum", "Minimum: {}", indent)),
        LeafField(schema, "maximum", "Maximum: {}", indent)),
        LeafField(schema, "default", "Default: {}", indent))

\* a variant that tests the composition keywords before '$ref'
BranchCompositionFirst(schema, indent) ==
    LET schema_type == Get(schema, "type", PyStr("any"))
    IN  IF HasComposition(schema) THEN CompositionBranch(schema, indent)
        ELSE IF Has(schema, "$ref") THEN RefBranch(schema, indent)
        ELSE IF schema_type = PyStr("object") THEN ObjectBranch(schema, indent)
        ELSE IF schema_type = PyStr("array") THEN ArrayBranch(schema, indent)
        ELSE LeafBranch(schema, schema_type, indent)

\* the branch chosen for a mapping: the first that matches
Branch(schema, indent) ==
    LET schema_type == Get(schema, "type", PyStr("any"))
    IN  IF Has(schema, "$ref") THEN RefBranch(schema, indent)
        ELSE IF HasComposition(schema) THEN CompositionBranch(schema, indent)
        ELSE IF schema_type = PyStr("object") THEN ObjectBranch(schema, indent)
        ELSE IF schema_type = PyStr("array") THEN ArrayBranch(schema, indent)
        ELSE LeafBranch(schema, schema_type, indent)

\* the example, after the branch
ExampleLines(schema, indent) ==
    IF ~Has(schema, "example") THEN Ok(<<>>)
    ELSE LET example_val == Item(schema, "example")
         IN  IF IsDict(example_val) \/ IsList(example_val)
             THEN IF Serializable(example_val)
                  THEN Ok(<<Line(indent, "Example:\n{}",
                                 <<PyStr(JoinLines(Indented(JsonLines(example_val, 0), indent)))>>)>>)
                  ELSE Ok(<<Line(indent, "Example: {} (raw)", <<example_val>>)>>)
             ELSE Ok(<<Line(indent, "Example: {}", <<example_val>>)>>)

format_schema(schema, indent) ==
    IF ~IsDict(schema) THEN FormatNonDict(schema, indent)
    ELSE Cat(Cat(DescriptionTitle(schema, indent), Branch(schema, indent)),
             ExampleLines(schema, indent))

\* the template with each "{}" replaced by the str of the next argument
RECURSIVE Fill(_, _)
Fill(template, args) ==
    IF Len(template) < 2 THEN template
    ELSE IF SubSeq(template, 1, 2) = "{}"
    THEN ToStr(args[1]) \o Fill(SubSeq(template, 3, Len(template)), Tail(args))
    ELSE SubSeq(template, 1, 1) \o Fill(SubSeq(template, 2, Len(template)), args)

\* the text of one line: f"{indent_str}..."
RenderLine(line) == Spaces(line[1]) \o Fill(line[2], line[3])

RenderLines(lines) == [i \in 1..Len(lines) |-> RenderLine(lines[i])]

(***************************************************************************)
(* The document under construction.  A build state D holds the elements    *)
(* appended so far (doc), every text given to the document library         *)
(* (handed) and the exception in flight (exc, "" when there is none).      *)
(* An element is <<kind, attribute, text>>; a table's text is its rows.    *)
(* The library takes any clean string; strict tells whether it raises on   *)
(* anything else (a control character, a value that is no string).         *)
(***************************************************************************)
Failed(D) == D.exc # ""
Fail(D, e) == [D EXCEPT !.exc = e]
Caught(D) == [D EXCEPT !.exc = ""]
Handed(D, text) == [D EXCEPT !.handed = Append(@, text)]
Appended(D, element) == [D EXCEPT !.doc = Append(@, element)]

\* a string without the characters add_paragraph strips
Clean(text) == IsStr(text) /\ Sanitize(text[2]) = text[2]

\* the library takes the text
Accepts(text) == Clean(text) \/ ~strict

\* doc.add_heading(text, level=level)
doc_add_heading(D, text, level) ==
    IF Failed(D) THEN D
    ELSE IF Accepts(text)
    THEN Appended(Handed(D, text),
                  <<"heading", SubSeq(Digits, level + 1, level + 1), text>>)
    ELSE Fail(Handed(D, text), "ValueError")

\* doc.add_paragraph(style=style) and p.add_run(text), or the code-block
\* paragraph; when the run is refused the empty paragraph stays
doc_add_run(D, kind, attribute, text) ==
    IF Failed(D) THEN D
    ELSE IF Accepts(text)
    THEN Appended(Handed(D, text), <<kind, attribute, text>>)
    ELSE Fail(Appended(Handed(D, text), <<kind, attribute, PyStr("")>>), "ValueError")

\* doc.add_paragraph(f"[Error ...: {e}]") inside try/except: pass
doc_add_placeholder(D, text) ==
    IF Accepts(text)
    THEN Appended(Handed(Caught(D), text), <<"paragraph", "plain", text>>)
    ELSE Handed(Caught(D), text)

\* the text add_paragraph and add_code_block write: None becomes "", then
\* str(text) without the control characters
Sanitized(text) ==
    PyStr(Sanitize(ToStr(IF IsNone(text) THEN PyStr("") ELSE text)))

add_paragraph(D, text, attribute) ==
    IF Failed(D) THEN D
    ELSE LET P == doc_add_run(D, "paragraph", attribute, Sanitized(text))
         IN  IF Failed(P)
             THEN doc_add_placeholder(P, PyStr("[Error adding content: " \o P.exc \o "]"))
             ELSE P

add_heading(D, text, level) ==
    IF Failed(D) THEN D
    ELSE LET H == doc_add_heading(D, text, level)
         IN  IF Failed(H) THEN add_paragraph(Caught(H), text, "bold") ELSE H

add_code_block(D, text) ==
    IF Failed(D) THEN D
    ELSE LET P == doc_add_run(D, "code", "courier", Sanitized(text))
         IN  IF Failed(P)
             THEN doc_add_placeholder(P, PyStr("[Error adding code block: " \o P.exc \o "]"))
             ELSE P

\* document.add_table(rows=1, cols=n) and the header cells
add_table(D, header) ==
    IF Failed(D) THEN D
    ELSE Appended([D EXCEPT !.handed = @ \o header], <<"table", "Table Grid", <<header>>>>)

\* table.add_row(): a row of empty cells on the table just added
add_row(D, cols) ==
    IF Failed(D) THEN D
    ELSE [D EXCEPT !.doc[Len(D.doc)][3] = Append(@, [c \in 1..cols |-> PyStr("")])]

\* row_cells[col].text = text, on the last row of the table
set_cell(D, col, text) ==
    IF Failed(D) THEN D
    ELSE IF Accepts(text)
    THEN [Handed(D, text) EXCEPT
             !.doc[Len(D.doc)][3][Len(D.doc[Len(D.doc)][3])][col] = text]
    ELSE Fail(Handed(D, text), "TypeError")

(***************************************************************************)
(* parse_and_write_doc: the sections of one document                       *)
(***************************************************************************)
\* document.add_heading(f"API Specification: {basename}", level=0)
TitleSection(D, filepath) ==
    doc_add_heading(D, PyStr("API Specification: " \o Basename(filepath)), 0)

\* if 'info' in spec: ...
InfoSection(D, spec) ==
    IF Failed(D) THEN D
    ELSE IF Raised(PyIn("info", spec)) THEN Fail(D, "TypeError")
    ELSE IF ~PyIn("info", spec)[2] THEN D
    ELSE IF ~IsDict(spec) THEN Fail(D, "TypeError")
    ELSE LET info == Item(spec, "info")
             D1 == add_heading(D, PyStr("General Information"), 1)
         IN  IF ~IsDict(info) THEN Fail(D1, "AttributeError")
             ELSE LET D2 == add_paragraph(D1,
                               PyStr("Title: " \o ToStr(Get(info, "title", PyStr("N/A")))),
                               "bold")
                      D3 == add_paragraph(D2,
                               PyStr("Version: " \o ToStr(Get(info, "version", PyStr("N/A")))),
                               "plain")
                  IN  IF Has(info, "description")
                      THEN add_paragraph(D3,
                               PyStr("Description: " \o ToStr(Item(info, "description"))),
                               "plain")
                      ELSE D3

\* one server: its URL and, when it has one, its description in parentheses
ServerLine(D, server) ==
    IF Failed(D) THEN D
    ELSE IF ~IsDict(server) THEN Fail(D, "AttributeError")
    ELSE LET url == Get(server, "url", PyStr("N/A"))
             desc == Get(server, "description", PyStr(""))
         IN  IF Truthy(desc) /\ ~IsStr(desc) THEN Fail(D, "TypeError")
             ELSE add_paragraph(D,
                     PyStr("- URL: " \o ToStr(url)
                           \o (IF Truthy(desc) THEN " (" \o desc[2] \o ")" ELSE "")),
                     "plain")

RECURSIVE ServerLines(_, _)
ServerLines(D, servers) ==
    IF Len(servers) = 0 THEN D
    ELSE ServerLines(ServerLine(D, servers[1]), Tail(servers))

\* if 'servers' in spec and spec['servers']: ...
ServersSection(D, spec) ==
    IF Failed(D) THEN D
    ELSE IF Raised(PyIn("servers", spec)) THEN Fail(D, "TypeError")
    ELSE IF ~PyIn("servers", spec)[2] THEN D
    ELSE IF ~IsDict(spec) THEN Fail(D, "TypeError")
    ELSE IF ~Truthy(Item(spec, "servers")) THEN D
    ELSE LET D1 == add_heading(D, PyStr("Servers"), 1)
         IN  IF ~Iterable(Item(spec, "servers")) THEN Fail(D1, "TypeError")
             ELSE ServerLines(D1, Elements(Item(spec, "servers")))

\* the method names an operation key is matched against
HttpMethods ==
    <<"GET", "POST", "PUT", "PATCH", "DELETE", "OPTIONS", "HEAD", "TRACE">>

IsHttpMethod(method) ==
    \E i \in 1..Len(HttpMethods) : HttpMethods[i] = Upper(method)

\* a + b: two lists or two strings, TypeError otherwise
PyAdd(a, b) ==
    IF IsList(a) /\ IsList(b) THEN Ok(PyList(a[2] \o b[2]))
    ELSE IF IsStr(a) /\ IsStr(b) THEN Ok(PyStr(a[2] \o b[2]))
    ELSE Raise("TypeError")

\* hash(v) succeeds
Hashable(v) == v[1] \notin {"list", "dict"}

\* unique_params_dict[key] = param: a key keeps its first position
Assigned(entries, key, param) ==
    IF \E i \in 1..Len(entries) : entries[i][1] = key
    THEN [i \in 1..Len(entries) |->
             IF entries[i][1] = key THEN <<key, param>> ELSE entries[i]]
    ELSE Append(entries, <<key, param>>)

\* the loop over all_params_list: <<"ok", entries>> or TypeError for a
\* name or location that cannot be hashed
RECURSIVE UniqueParamsDict(_, _)
UniqueParamsDict(params, entries) ==
    IF Len(params) = 0 THEN Ok(entries)
    ELSE LET param == params[1]
         IN  IF IsDict(param) /\ Has(param, "name") /\ Has(param, "in")
             THEN IF Hashable(Item(param, "name")) /\ Hashable(Item(param, "in"))
                  THEN UniqueParamsDict(Tail(params),
                           Assigned(entries,
                                    <<Item(param, "name"), Item(param, "in")>>, param))
                  ELSE Raise("TypeError")
             ELSE UniqueParamsDict(Tail(params), entries)

\* unique_params: path-level, then operation-level parameters, by (name, in)
UniqueParams(path_params_list, op_params_list) ==
    LET all_params_list == PyAdd(path_params_list, op_params_list)
    IN  IF Raised(all_params_list) THEN all_params_list
        ELSE LET entries == UniqueParamsDict(Elements(all_params_list[2]), <<>>)
             IN  IF Raised(entries) THEN entries
                 ELSE Ok([i \in 1..Len(entries[2]) |-> entries[2][i][2]])

\* '\n'.join(format_schema(schema)): the text, or the exception
SchemaText(schema_value) ==
    LET lines == format_schema(schema_value, 0)
    IN  IF Raised(lines) THEN lines
        ELSE Ok(PyStr(JoinLines(RenderLines(lines[2]))))

\* one row of the parameters table
ParamRow(D, param) ==
    LET D1 == add_row(D, 5)
        D2 == set_cell(D1, 1, Get(param, "name", PyStr("N/A")))
        D3 == set_cell(D2, 2, Get(param, "in", PyStr("N/A")))
        D4 == set_cell(D3, 3, PyStr(ToStr(Get(param, "required", PyBool(FALSE)))))
        D5 == set_cell(D4, 4, Get(param, "description", PyStr("")))
        schema_value == Get(param, "schema", PyDict(<<>>))
    IN  IF Failed(D5) THEN D5
        ELSE IF ~Truthy(schema_value)
        THEN set_cell(D5, 5, Get(param, "type", PyStr("N/A")))
        ELSE IF Raised(SchemaText(schema_value)) THEN Fail(D5, SchemaText(schema_value)[2])
        ELSE set_cell(D5, 5, SchemaText(schema_value)[2])

RECURSIVE ParamRows(_, _)
ParamRows(D, params) ==
    IF Len(params) = 0 \/ Failed(D) THEN D
    ELSE ParamRows(ParamRow(D, params[1]), Tail(params))

ParamsHeader ==
    <<PyStr("Name"), PyStr("In"), PyStr("Required"), PyStr("Description"),
      PyStr("Schema / Type")>>

\* the "Parameters" heading and the table inside its try/except
ParamsTable(D, unique_params) ==
    IF Failed(D) \/ Len(unique_params) = 0 THEN D
    ELSE LET D1 == add_heading(D, PyStr("Parameters"), 3)
             T == ParamRows(add_table(D1, ParamsHeader), unique_params)
         IN  IF Failed(T)
             THEN add_paragraph(Caught(T), PyStr("[Error displaying parameters table]"),
                                "italic")
             ELSE T

\* the parameters of one operation: merge, then the table
ParametersSection(D, path_params_list, operation) ==
    IF Failed(D) THEN D
    ELSE LET unique_params ==
                 UniqueParams(path_params_list, Get(operation, "parameters", PyList(<<>>)))
         IN  IF Raised(unique_params) THEN Fail(D, unique_params[2])
             ELSE ParamsTable(D, unique_params[2])

\* json.dumps(value, indent=2, ensure_ascii=False), str(value) when it fails
ExampleText(value) ==
    IF Serializable(value) THEN PyStr(JoinLines(JsonLines(value, 0)))
    ELSE PyStr(ToStr(value))

\* the named examples of one media type
RECURSIVE NamedExamples(_, _)
NamedExamples(D, pairs) ==
    IF Len(pairs) = 0 \/ Failed(D) THEN D
    ELSE LET D1 == add_paragraph(D, PyStr("- " \o pairs[1][1] \o ":"), "plain")
             ex_value == pairs[1][2]
         IN  IF ~IsDict(ex_value) THEN Fail(D1, "AttributeError")
             ELSE NamedExamples(
                      add_code_block(D1, ExampleText(Get(ex_value, "value", ex_value))),
                      Tail(pairs))

\* one media type of a request body: label, schema, examples
MediaType(D, media_type, media_spec) ==
    IF Failed(D) \/ ~IsDict(media_spec) THEN D
    ELSE LET D1 == add_paragraph(D, PyStr("Content-Type: " \o media_type), "bold")
             D2 == IF ~Has(media_spec, "schema") THEN D1
                   ELSE IF Raised(SchemaText(Item(media_spec, "schema")))
                   THEN Fail(D1, SchemaText(Item(media_spec, "schema"))[2])
                   ELSE add_code_block(D1, SchemaText(Item(media_spec, "schema"))[2])
         IN  IF Failed(D2) THEN D2
             ELSE IF Has(media_spec, "examples") /\ IsDict(Item(media_spec, "examples"))
             THEN NamedExamples(add_paragraph(D2, PyStr("Examples:"), "bold"),
                                Item(media_spec, "examples")[2])
             ELSE IF Has(media_spec, "example")
             THEN add_code_block(add_paragraph(D2, PyStr("Example:"), "bold"),
                                 ExampleText(Item(media_spec, "example")))
             ELSE D2

RECURSIVE MediaTypes(_, _)
MediaTypes(D, pairs) ==
    IF Len(pairs) = 0 \/ Failed(D) THEN D
    ELSE MediaTypes(MediaType(D, pairs[1][1], pairs[1][2]), Tail(pairs))

\* if 'requestBody' in operation: ...
RequestBodySection(D, operation) ==
    IF Failed(D) \/ ~Has(operation, "requestBody") THEN D
    ELSE LET req_body == Item(operation, "requestBody")
         IN  IF ~IsDict(req_body) THEN D
             ELSE LET D1 == add_heading(D, PyStr("Request Body"), 3)
                      D2 == add_paragraph(D1,
                               PyStr("Required: "
                                     \o ToStr(Get(req_body, "required", PyBool(FALSE)))),
                               "plain")
                      D3 == IF Has(req_body, "description")
                            THEN add_paragraph(D2,
                                    PyStr("Description: "
                                          \o ToStr(Item(req_body, "description"))),
                                    "plain")
                            ELSE D2
                  IN  IF Has(req_body, "content") /\ IsDict(Item(req_body, "content"))
                      THEN MediaTypes(D3, Item(req_body, "content")[2])
                      ELSE D3

\* the lines of one media type in a response cell
ResponseMedia(media_type, media_spec) ==
    IF ~IsDict(media_spec) THEN Ok(<<>>)
    ELSE Cat(Ok(<<"Content-Type: " \o media_type>>),
             IF ~Has(media_spec, "schema") THEN Ok(<<>>)
             ELSE LET lines == format_schema(Item(media_spec, "schema"), 0)
                  IN  IF Raised(lines) THEN lines
                      ELSE Ok([i \in 1..Len(lines[2]) |->
                                  "  " \o RenderLine(lines[2][i])]))

RECURSIVE ResponseMedias(_)
ResponseMedias(pairs) ==
    IF Len(pairs) = 0 THEN Ok(<<>>)
    ELSE Cat(ResponseMedia(pairs[1][1], pairs[1][2]), ResponseMedias(Tail(pairs)))

\* content_text of one response
ContentText(response) ==
    IF Has(response, "content") /\ IsDict(Item(response, "content"))
    THEN ResponseMedias(Item(response, "content")[2])
    ELSE IF Has(response, "schema")
    THEN LET lines == format_schema(Item(response, "schema"), 0)
         IN  IF Raised(lines) THEN lines ELSE Ok(RenderLines(lines[2]))
    ELSE Ok(<<>>)

\* one row of the responses table
ResponseRow(D, status_code, response) ==
    IF ~IsDict(response) THEN D
    ELSE LET D1 == add_row(D, 3)
             D2 == set_cell(D1, 1, PyStr(status_code))
             D3 == set_cell(D2, 2, Get(response, "description", PyStr("")))
         IN  IF Failed(D3) THEN D3
             ELSE IF Raised(ContentText(response)) THEN Fail(D3, ContentText(response)[2])
             ELSE set_cell(D3, 3, PyStr(JoinLines(ContentText(response)[2])))

RECURSIVE ResponseRows(_, _)
ResponseRows(D, pairs) ==
    IF Len(pairs) = 0 \/ Failed(D) THEN D
    ELSE ResponseRows(ResponseRow(D, pairs[1][1], pairs[1][2]), Tail(pairs))

ResponsesHeader ==
    <<PyStr("Status Code"), PyStr("Description"), PyStr("Content / Schema")>>

\* if 'responses' in operation and isinstance(operation['responses'], dict)
ResponsesSection(D, operation) ==
    IF Failed(D) THEN D
    ELSE IF ~(Has(operation, "responses") /\ IsDict(Item(operation, "responses"))) THEN D
    ELSE LET D1 == add_heading(D, PyStr("Responses"), 3)
             T == ResponseRows(add_table(D1, ResponsesHeader),
                               Item(operation, "responses")[2])
         IN  IF Failed(T)
             THEN add_paragraph(Caught(T), PyStr("[Error displaying responses table]"),
                                "italic")
             ELSE T

\* the text of an operation's heading
OperationHeading(method, path) == PyStr(Upper(method) \o " " \o path)

\* the heading and the lines under it, before the tables
OperationIntro(D, method, path, operation) ==
    LET tags == Get(operation, "tags", PyList(<<>>))
        summary == Get(operation, "summary", PyStr(""))
        description == Get(operation, "description", PyStr(""))
        D1 == add_heading(D, OperationHeading(method, path), 2)
        D2 == add_paragraph(D1,
                 PyStr("Operation ID: " \o ToStr(Get(operation, "operationId", PyStr("N/A")))),
                 "italic")
        D3 == IF ~Truthy(tags) THEN D2
              ELSE IF Raised(PyJoin(tags)) THEN Fail(D2, "TypeError")
              ELSE add_paragraph(D2, PyStr("Tags: " \o PyJoin(tags)[2]), "italic")
        D4 == IF Truthy(summary) THEN add_paragraph(D3, summary, "bold") ELSE D3
    IN  IF Truthy(description) THEN add_paragraph(D4, description, "plain") ELSE D4

\* one operation of a path item
Operation(D, method, path, operation, path_params_list) ==
    IF Failed(D) THEN D
    ELSE IF ~IsHttpMethod(method) \/ ~IsDict(operation) THEN D
    ELSE ResponsesSection(
             RequestBodySection(
                 ParametersSection(OperationIntro(D, method, path, operation),
                                   path_params_list, operation),
                 operation),
             operation)

RECURSIVE Operations(_, _, _, _)
Operations(D, path, pairs, path_params_list) ==
    IF Len(pairs) = 0 \/ Failed(D) THEN D
    ELSE Operations(Operation(D, pairs[1][1], path, pairs[1][2], path_params_list),
                    path, Tail(pairs), path_params_list)

\* one path item: skipped unless it is a mapping
PathItem(D, path, path_item) ==
    IF Failed(D) \/ ~IsDict(path_item) THEN D
    ELSE Operations(D, path, path_item[2], Get(path_item, "parameters", PyList(<<>>)))

RECURSIVE PathItems(_, _)
PathItems(D, pairs) ==
    IF Len(pairs) = 0 \/ Failed(D) THEN D
    ELSE PathItems(PathItem(D, pairs[1][1], pairs[1][2]), Tail(pairs))

\* if 'paths' in spec: ...
PathsSection(D, spec) ==
    IF Failed(D) THEN D
    ELSE IF Raised(PyIn("paths", spec)) THEN Fail(D, "TypeError")
    ELSE IF ~PyIn("paths", spec)[2] THEN D
    ELSE LET D1 == add_heading(D, PyStr("API Endpoints"), 1)
         IN  IF ~IsDict(spec) \/ ~IsDict(Item(spec, "paths"))
             THEN Fail(D1, "AttributeError")
             ELSE PathItems(D1, Item(spec, "paths")[2])

\* one named schema: its heading and its code block
NamedSchema(D, schema_name, schema_def) ==
    IF Failed(D) THEN D
    ELSE LET D1 == add_heading(D, PyStr(schema_name), 2)
         IN  IF Raised(SchemaText(schema_def)) THEN Fail(D1, SchemaText(schema_def)[2])
             ELSE add_code_block(D1, SchemaText(schema_def)[2])

RECURSIVE NamedSchemas(_, _)
NamedSchemas(D, pairs) ==
    IF Len(pairs) = 0 \/ Failed(D) THEN D
    ELSE NamedSchemas(NamedSchema(D, pairs[1][1], pairs[1][2]), Tail(pairs))

\* a variant that looks at the top-level 'definitions' first
SchemasHeadingLegacyFirst(D, spec) ==
    IF Failed(D) THEN <<D, PyNone>>
    ELSE IF Raised(PyIn("definitions", spec)) THEN <<Fail(D, "TypeError"), PyNone>>
    ELSE IF PyIn("definitions", spec)[2]
    THEN IF ~IsDict(spec) THEN <<Fail(D, "TypeError"), PyNone>>
         ELSE <<add_heading(D, PyStr("Definitions"), 1), Item(spec, "definitions")>>
    ELSE IF /\ IsDict(spec)
            /\ IsDict(Get(spec, "components", PyNone))
            /\ Has(Item(spec, "components"), "schemas")
    THEN <<add_heading(D, PyStr("Schemas (Components)"), 1),
           Item(Item(spec, "components"), "schemas")>>
    ELSE <<D, PyNone>>

\* the schemas of the specification and the heading of their section
SchemasHeading(D, spec) ==
    IF Failed(D) THEN <<D, PyNone>>
    ELSE IF Raised(PyIn("components", spec)) THEN <<Fail(D, "TypeError"), PyNone>>
    ELSE IF PyIn("components", spec)[2] /\ ~IsDict(spec)
    THEN <<Fail(D, "AttributeError"), PyNone>>
    ELSE IF /\ PyIn("components", spec)[2]
            /\ IsDict(Item(spec, "components"))
            /\ Has(Item(spec, "components"), "schemas")
    THEN <<add_heading(D, PyStr("Schemas (Components)"), 1),
           Item(Item(spec, "components"), "schemas")>>
    ELSE IF PyIn("definitions", spec)[2]
    THEN IF ~IsDict(spec) THEN <<Fail(D, "TypeError"), PyNone>>
         ELSE <<add_heading(D, PyStr("Definitions"), 1), Item(spec, "definitions")>>
    ELSE <<D, PyNone>>

SchemasSection(D, spec) ==
    LET H == SchemasHeading(D, spec)
    IN  IF Failed(H[1]) THEN H[1]
        ELSE IF Truthy(H[2]) /\ IsDict(H[2]) THEN NamedSchemas(H[1], H[2][2])
        ELSE H[1]

\* sample schemas
StringSchema == PyDict(<< <<"type", PyStr("string")>> >>)
RefSchema == PyDict(<< <<"$ref", PyStr("#/B")>>, <<"description", PyStr("d")>> >>)
BrokenSchema ==
    PyDict(<< <<"type", PyStr("object")>>, <<"required", PyList(<<PyInt(1)>>)>> >>)

(***************************************************************************)
(* The input files.  A file is <<name, exists, opens, decodes, content>>:  *)
(* whether os.path.exists finds it, whether open() succeeds, whether       *)
(* json.load / yaml.safe_load succeeds, and the decoded specification.     *)
(***************************************************************************)
\* the most files the list holds
MaxFiles == 2

PetsSpec ==
    PyDict(<< <<"info", PyDict(<< <<"title", PyStr("Pets API")>>,
                                  <<"version", PyStr("1.0")>> >>)>>,
              <<"paths", PyDict(<< <<"/pets", PyDict(<<
                  <<"get", PyDict(<< <<"responses",
                                       PyDict(<< <<"200", PyDict(<<>>)>> >>)>> >>)>> >>)>> >>)>> >>)

MergeSpec ==
    PyDict(<<
      <<"paths", PyDict(<< <<"/items/{id}", PyDict(<<
          <<"parameters", PyList(<<
              PyDict(<< <<"name", PyStr("id")>>, <<"in", PyStr("path")>>,
                        <<"description", PyStr("path level")>> >>) >>)>>,
          <<"put", PyDict(<<
              <<"operationId", PyStr("putItem")>>,
              <<"tags", PyList(<<PyStr("items"), PyStr("write")>>)>>,
              <<"summary", PyStr("Replace")>>,
              <<"parameters", PyList(<<
                  PyDict(<< <<"name", PyStr("id")>>, <<"in", PyStr("path")>>,
                            <<"required", PyBool(TRUE)>>,
                            <<"description", PyStr("operation level")>>,
                            <<"schema", StringSchema>> >>),
                  PyDict(<< <<"name", PyStr("q")>>, <<"in", PyStr("query")>>,
                            <<"type", PyStr("string")>> >>) >>)>>,
              <<"requestBody", PyDict(<<
                  <<"required", PyBool(TRUE)>>,
                  <<"content", PyDict(<< <<"application/json", PyDict(<<
                      <<"schema", RefSchema>>,
                      <<"example", PyDict(<< <<"id", PyInt(1)>> >>)>> >>)>> >>)>> >>)>>,
              <<"responses", PyDict(<<
                  <<"200", PyDict(<<
                      <<"description", PyStr("ok")>>,
                      <<"content", PyDict(<< <<"application/json",
                          PyDict(<< <<"schema", StringSchema>> >>)>> >>)>> >>)>>,
                  <<"404", PyDict(<< <<"description", PyStr("none")>>,
                                     <<"schema", RefSchema>> >>)>> >>)>> >>)>> >>)>> >>)>>,
      <<"components", PyDict(<< <<"schemas", PyDict(<<
          <<"Item", PyDict(<< <<"type", PyStr("object")>>,
                              <<"properties", PyDict(<< <<"id", StringSchema>> >>)>> >>)>>,
          <<"Name", StringSchema>> >>)>> >>)>> >>)

\* the second server is a bare string
ServersSpec ==
    PyDict(<<
      <<"info", PyDict(<< <<"title", PyStr("S")>>, <<"description", PyStr("d")>> >>)>>,
      <<"servers", PyList(<< PyDict(<< <<"url", PyStr("https://a")>>,
                                       <<"description", PyStr("prod")>> >>),
                             PyStr("https://b"),
                             PyDict(<< <<"url", PyStr("https://c")>> >>) >>)>>,
      <<"paths", PyDict(<< <<"/s", PyDict(<<
          <<"get", PyDict(<< <<"responses", PyDict(<<
              <<"200", PyDict(<< <<"description", PyStr("ok")>> >>)>> >>)>> >>)>> >>)>> >>)>>,
      <<"definitions", PyDict(<< <<"A", StringSchema>> >>)>> >>)

\* schemas with a malformed 'required', in a parameter and among the
\* named schemas
BrokenSchemaSpec ==
    PyDict(<<
      <<"paths", PyDict(<< <<"/b", PyDict(<<
          <<"post", PyDict(<<
              <<"parameters", PyList(<<
                  PyDict(<< <<"name", PyStr("x")>>, <<"in", PyStr("query")>>,
                            <<"schema", BrokenSchema>> >>),
                  PyDict(<< <<"name", PyStr("y")>>, <<"in", PyStr("query")>>,
                            <<"schema", StringSchema>> >>) >>)>>,
              <<"responses", PyDict(<<
                  <<"200", PyDict(<< <<"schema", BrokenSchema>> >>)>>,
                  <<"500", PyDict(<<>>)>> >>)>> >>)>> >>)>> >>)>>,
      <<"components", PyDict(<< <<"schemas", PyDict(<<
          <<"A", BrokenSchema>>, <<"B", StringSchema>> >>)>> >>)>> >>)

\* control characters and a null description in the texts
ControlSpec ==
    PyDict(<<
      <<"info", PyDict(<< <<"title", PyStr("T\fitle")>> >>)>>,
      <<"paths", PyDict(<< <<"/a\fb", PyDict(<<
          <<"get", PyDict(<<
              <<"summary", PyStr("s\f")>>,
              <<"parameters", PyList(<<
                  PyDict(<< <<"name", PyStr("id")>>, <<"in", PyStr("path")>>,
                            <<"description", PyNone>> >>) >>)>>,
              <<"responses", PyDict(<<
                  <<"200", PyDict(<< <<"description", PyStr("d\f")>> >>)>> >>)>> >>)>> >>)>> >>)>>,
      <<"definitions", PyDict(<< <<"N\fame", PyDict(<< <<"description", PyStr("x\fy")>> >>)>> >>)>> >>)

\* a named example that is no mapping, and an operation without parameters
\* under a path whose 'parameters' is null
ExamplesSpec ==
    PyDict(<<
      <<"paths", PyDict(<< <<"/e", PyDict(<<
          <<"post", PyDict(<<
              <<"requestBody", PyDict(<<
                  <<"description", PyStr("body")>>,
                  <<"content", PyDict(<< <<"text/plain", PyDict(<<
                      <<"examples", PyDict(<<
                          <<"one", PyDict(<< <<"value", PyList(<<PyDate(1)>>)>> >>)>>,
                          <<"two", PyStr("raw")>> >>)>> >>)>> >>)>> >>)>>,
              <<"responses", PyDict(<< <<"201", PyDict(<<>>)>> >>)>> >>)>> >>)>>,
          <<"/n", PyDict(<<
              <<"parameters", PyNone>>,
              <<"get", PyDict(<<>>)>> >>)>> >>)>>,
      <<"definitions", PyDict(<< <<"Z", RefSchema>> >>)>> >>)

FileList ==
    << <<"pets.json", TRUE, TRUE, TRUE, PetsSpec>>,
       <<"specs/merge.yaml", TRUE, TRUE, TRUE, MergeSpec>>,
       <<"servers.yml", TRUE, TRUE, TRUE, ServersSpec>>,
       <<"broken.json", TRUE, TRUE, TRUE, BrokenSchemaSpec>>,
       <<"control.JSON", TRUE, TRUE, TRUE, ControlSpec>>,
       <<"examples.yaml", TRUE, TRUE, TRUE, ExamplesSpec>>,
       <<"null.yaml", TRUE, TRUE, TRUE, PyNone>>,
       <<"list.json", TRUE, TRUE, TRUE, PyList(<<PyStr("info")>>)>>,
       <<"empty.json", TRUE, TRUE, TRUE, PyDict(<<>>)>>,
       <<"missing.json", FALSE, FALSE, FALSE, PyNone>>,
       <<"notes.txt", TRUE, TRUE, FALSE, PyNone>>,
       <<"locked.txt", TRUE, FALSE, FALSE, PyNone>>,
       <<"locked.yaml", TRUE, FALSE, FALSE, PyNone>>,
       <<"bad.json", TRUE, TRUE, FALSE, PyNone>>,
       <<"form\ffeed.yml", TRUE, TRUE, FALSE, PyNone>>,
       <<"page\f.json", TRUE, TRUE, TRUE, PyDict(<<>>)>> >>

FileName(file) == file[1]
Exists(file) == file[2]
Opens(file) == file[3]
Decodes(file) == file[4]
Content(file) == file[5]

\* filepath.lower().endswith('.json') or .endswith(('.yaml', '.yml'))
Supported(filepath) ==
    \/ EndsWith(Lower(filepath), ".json")
    \/ EndsWith(Lower(filepath), ".yaml")
    \/ EndsWith(Lower(filepath), ".yml")

\* the lists of at most n files
RECURSIVE FileLists(_)
FileLists(n) ==
    IF n = 0 THEN {<<>>}
    ELSE FileLists(n - 1)
         \cup {Append(l, FileList[i]) : l \in {m \in FileLists(n - 1) : Len(m) = n - 1},
                                        i \in 1..Len(FileList)}

(***************************************************************************)
(* The main loop and parse_and_write_doc, one step per section.            *)
(***************************************************************************)
CurrentFile == api_files[fileIdx]

\* the build state held in the variables, no exception in flight
CurrentD == [doc |-> document, handed |-> handed, exc |-> ""]

\* document = Document()
NewD == [doc |-> <<>>, handed |-> <<>>, exc |-> ""]

formatIdle ==
    /\ inSchema = PyNone /\ inIndent = 0 /\ fmtPc = "idle" /\ fmtResult = Ok(<<>>)

tableIdle ==
    /\ pathParams = <<>> /\ opParams = <<>> /\ tablePc = "idle" /\ tableDoc = NewD

mainIdle ==
    /\ api_files = <<>> /\ fileIdx = 1 /\ pc = "idle"
    /\ document = <<>> /\ handed = <<>> /\ failure = "" /\ result = "none"
    /\ saves = <<>> /\ files_processed_count = 0 /\ files_failed_count = 0

Init ==
    /\ api_files \in FileLists(MaxFiles) \ {<<>>}
    /\ fileIdx = 1
    /\ pc = "loop"
    /\ document = <<>> /\ handed = <<>> /\ failure = "" /\ result = "none"
    /\ saves = <<>>
    /\ files_processed_count = 0
    /\ files_failed_count = 0
    /\ strict \in BOOLEAN
    /\ formatIdle /\ tableIdle

\* the section built D: go on, or to the handler with the exception
Continue(D, next) ==
    /\ document' = D.doc
    /\ handed' = D.handed
    /\ failure' = D.exc
    /\ pc' = IF Failed(D) THEN "critical" ELSE next
    /\ UNCHANGED <<api_files, fileIdx, result, saves,
                   files_processed_count, files_failed_count>>

\* document.save(output_filename), which succeeds or raises
SaveAttempt(doc, ok) == <<fileIdx, OutputFilename(FileName(CurrentFile)), doc, ok>>

\* a variant that skips a missing file without counting it
FileMissingUncounted ==
    /\ UNCHANGED <<fmtVars, tableVars, strict>>
    /\ pc = "loop" /\ fileIdx <= Len(api_files)
    /\ ~Exists(CurrentFile)
    /\ fileIdx' = fileIdx + 1
    /\ UNCHANGED <<api_files, pc, document, handed, failure, result, saves,
                   files_processed_count, files_failed_count>>

\* else: "File not found, skipping"; files_failed_count += 1
FileMissing ==
    /\ UNCHANGED <<fmtVars, tableVars, strict>>
    /\ pc = "loop" /\ fileIdx <= Len(api_files)
    /\ ~Exists(CurrentFile)
    /\ files_failed_count' = files_failed_count + 1
    /\ fileIdx' = fileIdx + 1
    /\ UNCHANGED <<api_files, pc, document, handed, failure, result, saves,
                   files_processed_count>>

\* if os.path.exists(api_file): parse_and_write_doc(api_file) is entered
StartParse ==
    /\ UNCHANGED <<fmtVars, tableVars, strict>>
    /\ pc = "loop" /\ fileIdx <= Len(api_files)
    /\ Exists(CurrentFile)
    /\ pc' = "read"
    /\ document' = <<>> /\ handed' = <<>> /\ failure' = "" /\ result' = "none"
    /\ UNCHANGED <<api_files, fileIdx, saves,
                   files_processed_count, files_failed_count>>

\* the file opens and its extension is none of .json, .yaml, .yml
SkipUnsupported ==
    /\ UNCHANGED <<fmtVars, tableVars, strict>>
    /\ pc = "read"
    /\ Opens(CurrentFile) /\ ~Supported(FileName(CurrentFile))
    /\ result' = "failure"
    /\ pc' = "returned"
    /\ UNCHANGED <<api_files, fileIdx, document, handed, failure, saves,
                   files_processed_count, files_failed_count>>

\* the error document of a file that cannot be read
ErrorDocument(D, filepath, e) ==
    add_paragraph(
        add_heading(D, PyStr("Error processing: " \o Basename(filepath)), 1),
        PyStr("Could not read or parse the file. Error: " \o e), "plain")

\* open() or the decoder raises: the error document is built and saved
ReadFails ==
    /\ UNCHANGED <<fmtVars, tableVars, strict>>
    /\ pc = "read"
    /\ \/ ~Opens(CurrentFile)
       \/ Supported(FileName(CurrentFile)) /\ ~Decodes(CurrentFile)
    /\ LET D == ErrorDocument(CurrentD, FileName(CurrentFile),
                              IF Opens(CurrentFile) THEN "DecodeError" ELSE "OSError")
       IN  /\ document' = D.doc
           /\ handed' = D.handed
           /\ \E ok \in BOOLEAN : saves' = Append(saves, SaveAttempt(D.doc, ok))
    /\ result' = "failure"
    /\ pc' = "returned"
    /\ UNCHANGED <<api_files, fileIdx, failure,
                   files_processed_count, files_failed_count>>

\* spec = json.load(f) or yaml.safe_load(f)
Decoded ==
    /\ UNCHANGED <<fmtVars, tableVars, strict>>
    /\ pc = "read"
    /\ Opens(CurrentFile) /\ Supported(FileName(CurrentFile)) /\ Decodes(CurrentFile)
    /\ pc' = "title"
    /\ UNCHANGED <<api_files, fileIdx, document, handed, failure, result, saves,
                   files_processed_count, files_failed_count>>

Title ==
    /\ UNCHANGED <<fmtVars, tableVars, strict>>
    /\ pc = "title"
    /\ Continue(TitleSection(CurrentD, FileName(CurrentFile)), "info")

GeneralInfo ==
    /\ UNCHANGED <<fmtVars, tableVars, strict>>
    /\ pc = "info"
    /\ Continue(InfoSection(CurrentD, Content(CurrentFile)), "servers")

Servers ==
    /\ UNCHANGED <<fmtVars, tableVars, strict>>
    /\ pc = "servers"
    /\ Continue(ServersSection(CurrentD, Content(CurrentFile)), "paths")

Paths ==
    /\ UNCHANGED <<fmtVars, tableVars, strict>>
    /\ pc = "paths"
    /\ Continue(PathsSection(CurrentD, Content(CurrentFile)), "schemas")

Schemas ==
    /\ UNCHANGED <<fmtVars, tableVars, strict>>
    /\ pc = "schemas"
    /\ Continue(SchemasSection(CurrentD, Content(CurrentFile)), "save")

\* document.save(output_filename): return True, or False when it raises
Save ==
    /\ UNCHANGED <<fmtVars, tableVars, strict>>
    /\ pc = "save"
    /\ \E ok \in BOOLEAN :
          /\ saves' = Append(saves, SaveAttempt(document, ok))
          /\ result' = IF ok THEN "success" ELSE "failure"
    /\ pc' = "returned"
    /\ UNCHANGED <<api_files, fileIdx, document, handed, failure,
                   files_processed_count, files_failed_count>>

\* a variant that reports the failure in a fresh document
CriticalDocumentAlone(D, filepath, e) ==
    add_paragraph(
        add_heading(NewD, PyStr("Critical Error in: " \o Basename(filepath)), 1),
        PyStr("An unexpected error occurred while generating documentation for this file: "
              \o e),
        "plain")

\* what the handler adds to the document
CriticalDocument(D, filepath, e) ==
    add_paragraph(
        add_heading(D, PyStr("Critical Error in: " \o Basename(filepath)), 1),
        PyStr("An unexpected error occurred while generating documentation for this file: "
              \o e),
        "plain")

\* a variant of the handler that reports a success when its save succeeds
CriticalReportsSave ==
    /\ UNCHANGED <<fmtVars, tableVars, strict>>
    /\ pc = "critical"
    /\ LET D == CriticalDocument(CurrentD, FileName(CurrentFile), failure)
       IN  /\ document' = D.doc
           /\ handed' = D.handed
           /\ \E ok \in BOOLEAN :
                 /\ saves' = Append(saves, SaveAttempt(D.doc, ok))
                 /\ result' = IF ok THEN "success" ELSE "failure"
    /\ failure' = ""
    /\ pc' = "returned"
    /\ UNCHANGED <<api_files, fileIdx, files_processed_count, files_failed_count>>

\* except Exception as e: the error heading and paragraph, the save attempt
Critical ==
    /\ UNCHANGED <<fmtVars, tableVars, strict>>
    /\ pc = "critical"
    /\ LET D == CriticalDocument(CurrentD, FileName(CurrentFile), failure)
       IN  /\ document' = D.doc
           /\ handed' = D.handed
           /\ \E ok \in BOOLEAN : saves' = Append(saves, SaveAttempt(D.doc, ok))
    /\ failure' = ""
    /\ result' = "failure"
    /\ pc' = "returned"
    /\ UNCHANGED <<api_files, fileIdx, files_processed_count, files_failed_count>>

\* if parse_and_write_doc(api_file): files_processed_count += 1
\* else: files_failed_count += 1
Count ==
    /\ UNCHANGED <<fmtVars, tableVars, strict>>
    /\ pc = "returned"
    /\ IF result = "success"
       THEN /\ files_processed_count' = files_processed_count + 1
            /\ UNCHANGED files_failed_count
       ELSE /\ files_failed_count' = files_failed_count + 1
            /\ UNCHANGED files_processed_count
    /\ fileIdx' = fileIdx + 1
    /\ pc' = "loop"
    /\ document' = <<>> /\ handed' = <<>> /\ result' = "none"
    /\ UNCHANGED <<api_files, failure, saves>>

\* the loop is over: the final summary
Summary ==
    /\ UNCHANGED <<fmtVars, tableVars, strict>>
    /\ pc = "loop" /\ fileIdx > Len(api_files)
    /\ pc' = "done"
    /\ UNCHANGED <<api_files, fileIdx, document, handed, failure, result, saves,
                   files_processed_count, files_failed_count>>

Next ==
    \/ FileMissing \/ StartParse \/ SkipUnsupported \/ ReadFails \/ Decoded
    \/ Title \/ GeneralInfo \/ Servers \/ Paths \/ Schemas
    \/ Save \/ Critical \/ Count \/ Summary

Spec == Init /\ [][Next]_vars

(***************************************************************************)
(* The parameters table under test: the path-level and the operation-level *)
(* lists are built parameter by parameter, then the table of one           *)
(* operation is written into a fresh document.                             *)
(***************************************************************************)
\* the most parameters the two lists hold together
MaxParams == 3

\* the parameters the lists are made of
ParamList ==
    << PyDict(<< <<"name", PyStr("id")>>, <<"in", PyStr("path")>>,
                 <<"description", PyStr("path level")>> >>),
       PyDict(<< <<"name", PyStr("id")>>, <<"in", PyStr("path")>>,
                 <<"required", PyBool(TRUE)>>,
                 <<"description", PyStr("operation level")>>,
                 <<"schema", StringSchema>> >>),
       PyDict(<< <<"name", PyStr("id")>>, <<"in", PyStr("query")>>,
                 <<"type", PyStr("string")>> >>),
       PyDict(<< <<"name", PyStr("q")>>, <<"in", PyStr("query")>>,
                 <<"schema", BrokenSchema>> >>),
       PyDict(<< <<"name", PyStr("q")>>, <<"in", PyStr("query")>>,
                 <<"description", PyNone>> >>),
       PyDict(<< <<"name", PyList(<<PyStr("n")>>)>>, <<"in", PyStr("path")>> >>),
       PyDict(<< <<"name", PyStr("q")>> >>),
       PyStr("id") >>

InitParams ==
    /\ pathParams = <<>>
    /\ opParams = <<>>
    /\ tablePc = "build"
    /\ tableDoc = NewD
    /\ strict \in BOOLEAN
    /\ formatIdle /\ mainIdle

\* path_item['parameters'].append(param)
AddPathParam ==
    /\ tablePc = "build"
    /\ Len(pathParams) + Len(opParams) < MaxParams
    /\ \E i \in 1..Len(ParamList) : pathParams' = Append(pathParams, ParamList[i])
    /\ UNCHANGED <<opParams, tablePc, tableDoc, fmtVars, mainVars, strict>>

\* operation['parameters'].append(param)
AddOpParam ==
    /\ tablePc = "build"
    /\ Len(pathParams) + Len(opParams) < MaxParams
    /\ \E i \in 1..Len(ParamList) : opParams' = Append(opParams, ParamList[i])
    /\ UNCHANGED <<pathParams, tablePc, tableDoc, fmtVars, mainVars, strict>>

\* the "Parameters" part of one operation
BuildTable ==
    /\ tablePc = "build"
    /\ tableDoc' =
          ParametersSection(NewD, PyList(pathParams),
                            PyDict(<< <<"parameters", PyList(opParams)>> >>))
    /\ tablePc' = "done"
    /\ UNCHANGED <<pathParams, opParams, fmtVars, mainVars, strict>>

NextParams == AddPathParam \/ AddOpParam \/ BuildTable

SpecParams == InitParams /\ [][NextParams]_vars

(***************************************************************************)
(* The formatter under test: a schema is built key by key, in any order,   *)
(* from the entries below, and then formatted.                             *)
(***************************************************************************)
\* the most keys a generated mapping holds
MaxKeys == 3
\* the deepest indent format_schema is called with
MaxIndent == 1

\* the <<key, value>> pairs a generated mapping is made of
EntryList ==
    << <<"type", PyStr("object")>>,
       <<"type", PyStr("array")>>,
       <<"type", PyStr("string")>>,
       <<"description", PyStr("d")>>,
       <<"description", PyStr("")>>,
       <<"title", PyStr("t")>>,
       <<"$ref", PyStr("#/A")>>,
       <<"allOf", PyList(<<StringSchema>>)>>,
       <<"anyOf", PyList(<<RefSchema, PyNone>>)>>,
       <<"anyOf", PyDict(<< <<"a", StringSchema>> >>)>>,
       <<"oneOf", PyList(<<BrokenSchema>>)>>,
       <<"oneOf", PyList(<<>>)>>,
       <<"required", PyList(<<PyStr("a")>>)>>,
       <<"required", PyList(<<PyInt(1)>>)>>,
       <<"required", PyBool(TRUE)>>,
       <<"required", PyStr("ab")>>,
       <<"required", PyNone>>,
       <<"properties", PyDict(<< <<"a", StringSchema>>, <<"b", RefSchema>> >>)>>,
       <<"properties", PyDict(<< <<"b", PyList(<<StringSchema>>)>>, <<"a", PyDict(<<>>)>> >>)>>,
       <<"properties", PyDict(<< <<"c", BrokenSchema>> >>)>>,
       <<"properties", PyStr("x")>>,
       <<"additionalProperties", PyBool(FALSE)>>,
       <<"additionalProperties", StringSchema>>,
       <<"items", StringSchema>>,
       <<"format", PyStr("f")>>,
       <<"enum", PyList(<<PyInt(1), PyStr("x")>>)>>,
       <<"enum", PyInt(1)>>,
       <<"example", PyDict(<< <<"k", PyInt(1)>> >>)>>,
       <<"example", PyList(<<PyDate(1)>>)>>,
       <<"example", PyStr("e")>> >>

\* the inputs that are no mapping
NonDictInputs ==
    << PyNone, PyStr("x"), PyInt(7), PyBool(TRUE),
       PyList(<<>>), PyList(<<StringSchema, PyNone>>), PyList(<<BrokenSchema>>) >>

InitFmt ==
    /\ \/ inSchema = PyDict(<<>>)
       \/ \E i \in 1..Len(NonDictInputs) : inSchema = NonDictInputs[i]
    /\ inIndent \in 0..MaxIndent
    /\ fmtPc = "build"
    /\ fmtResult = Ok(<<>>)
    /\ strict = FALSE
    /\ tableIdle /\ mainIdle

\* schema[key] = value, for a key the mapping does not hold yet
AddKey ==
    /\ fmtPc = "build"
    /\ IsDict(inSchema)
    /\ Len(inSchema[2]) < MaxKeys
    /\ \E i \in 1..Len(EntryList) :
          /\ ~Has(inSchema, EntryList[i][1])
          /\ inSchema' = PyDict(Append(inSchema[2], EntryList[i]))
    /\ UNCHANGED <<inIndent, fmtPc, fmtResult, tableVars, mainVars, strict>>

\* lines = format_schema(schema, indent)
CallFormat ==
    /\ fmtPc = "build"
    /\ fmtResult' = format_schema(inSchema, inIndent)
    /\ fmtPc' = "done"
    /\ UNCHANGED <<inSchema, inIndent, tableVars, mainVars, strict>>

NextFmt == AddKey \/ CallFormat

SpecFmt == InitFmt /\ [][NextFmt]_vars



(***************************************************************************)
(* Claims about format_schema, checked under SpecFmt.                      *)
(***************************************************************************)
FmtDone == fmtPc = "done"
FmtLines == fmtResult[2]

\* the lines of the elements of a list, each formatted at one indent
RECURSIVE LinesOfEach(_, _)
LinesOfEach(items, ind) ==
    IF Len(items) = 0 THEN <<>>
    ELSE format_schema(items[1], ind)[2] \o LinesOfEach(Tail(items), ind)

\* the indexes of the lines equal to one line
IndexesOf(lines, line) == {i \in 1..Len(lines) : lines[i] = line}

\* C1 (as claimed): format_schema never raises, whatever value it is given:
\* every finished call has returned a sequence of lines.
C1_NeverRaises == FmtDone => ~Raised(fmtResult)

\* the number of lines the description and the title put before the branch
LeadLines(s) ==
    (IF Truthy(Get(s, "description", PyNone)) THEN 1 ELSE 0)
    + (IF Truthy(Get(s, "title", PyNone)) THEN 1 ELSE 0)

RefLine(s, ind) == Line(ind, "Reference: {}", <<Item(s, "$ref")>>)

\* C2 (as claimed): for every mapping that contains '$ref', the first line
\* returned is "Reference: <ref value>" at the indent, whatever other keys
\* (description and title included) the mapping holds.
C2_ReferenceIsFirstLine ==
    (FmtDone /\ IsDict(inSchema) /\ Has(inSchema, "$ref"))
        => /\ ~Raised(fmtResult)
           /\ Len(FmtLines) >= 1
           /\ FmtLines[1] = RefLine(inSchema, inIndent)

\* C2 (amended): for every mapping that contains '$ref', the call returns and
\* the "Reference: <ref value>" line comes right after the "Description:"
\* line (present when 'description' is truthy) and the "Title:" line (present
\* when 'title' is truthy), which are the only lines before it; it is the
\* first line exactly when neither is truthy.
C2_ReferenceAfterDescriptionTitle ==
    (FmtDone /\ IsDict(inSchema) /\ Has(inSchema, "$ref"))
        => /\ ~Raised(fmtResult)
           /\ Len(FmtLines) > LeadLines(inSchema)
           /\ FmtLines[LeadLines(inSchema) + 1] = RefLine(inSchema, inIndent)
           /\ IndexesOf(FmtLines, RefLine(inSchema, inIndent)) = {LeadLines(inSchema) + 1}
           /\ \A j \in 1..LeadLines(inSchema) :
                 FmtLines[j][2] \in {"Description: {}", "Title: {}"}
           /\ (FmtLines[1] = RefLine(inSchema, inIndent)) <=> (LeadLines(inSchema) = 0)

\* C2 witness: a '$ref' mapping with a description and a title was formatted
\* and its third line is the reference.
C2_Witness ==
    /\ FmtDone /\ IsDict(inSchema) /\ Has(inSchema, "$ref")
    /\ LeadLines(inSchema) = 2
    /\ Len(FmtLines) >= 3
    /\ FmtLines[3] = RefLine(inSchema, inIndent)

\* 'required' is absent or a list of strings
RequiredWellFormed(s) ==
    ~Has(s, "required")
    \/ /\ IsList(Item(s, "required"))
       /\ \A i \in 1..Len(Item(s, "required")[2]) : IsStr(Item(s, "required")[2][i])

\* a well-formed object schema: type 'object', 'properties' a mapping whose
\* schemas format at ind + 2, 'required' absent or a list of names
WellFormedObject(s, ind) ==
    /\ IsDict(s)
    /\ Get(s, "type", PyStr("any")) = PyStr("object")
    /\ Has(s, "properties") /\ IsDict(Item(s, "properties"))
    /\ RequiredWellFormed(s)
    /\ \A i \in 1..Len(Item(s, "properties")[2]) :
          ~Raised(format_schema(Item(s, "properties")[2][i][2], ind + 2))

\* name is listed in 'required'
ListedRequired(s, name) ==
    /\ Has(s, "required")
    /\ \E i \in 1..Len(Item(s, "required")[2]) : Item(s, "required")[2][i] = PyStr(name)

\* the property blocks the claim describes, in the order of 'properties'
RECURSIVE PropertyBlocks(_, _, _)
PropertyBlocks(s, pairs, ind) ==
    IF Len(pairs) = 0 THEN <<>>
    ELSE <<Line(ind, "  - {}{}:",
                <<PyStr(pairs[1][1]),
                  PyStr(IF ListedRequired(s, pairs[1][1]) THEN " (required)" ELSE "")>>)>>
         \o format_schema(pairs[1][2], ind + 2)[2]
         \o PropertyBlocks(s, Tail(pairs), ind)

PropertiesHeader(ind) == Line(ind, "Properties:", <<>>)

\* one header at the schema's indent, followed by the N blocks in order
HeaderThenBlocks(s, ind, lines) ==
    /\ Cardinality(IndexesOf(lines, PropertiesHeader(ind))) = 1
    /\ LET h == CHOOSE i \in IndexesOf(lines, PropertiesHeader(ind)) : TRUE
           blocks == PropertyBlocks(s, Item(s, "properties")[2], ind)
       IN  /\ Len(lines) >= h + Len(blocks)
           /\ SubSeq(lines, h + 1, h + Len(blocks)) = blocks

\* C6 (as claimed): every well-formed object schema (type 'object',
\* 'properties' a mapping with N entries) gets exactly one "Properties:"
\* header at its own indent, followed by its N bulleted property blocks in
\* insertion order, each the bullet line (with " (required)" exactly when
\* the name is in 'required') and the property's schema at indent + 2.
C6_PropertiesOfEveryObject ==
    (FmtDone /\ WellFormedObject(inSchema, inIndent))
        => /\ ~Raised(fmtResult)
           /\ HeaderThenBlocks(inSchema, inIndent, FmtLines)

\* C6 (amended): the same, for the well-formed object schemas that hold
\* neither '$ref' nor a composition keyword (allOf, anyOf, oneOf); with one
\* of these the object branch is not taken and no "Properties:" header is
\* emitted.
C6_PropertiesOfPlainObject ==
    (FmtDone /\ WellFormedObject(inSchema, inIndent)
             /\ ~Has(inSchema, "$ref") /\ ~HasComposition(inSchema))
        => /\ ~Raised(fmtResult)
           /\ HeaderThenBlocks(inSchema, inIndent, FmtLines)

\* C6 witness: an object with two properties, one of them required, was
\* formatted and its required property got the annotated bullet.
C6_Witness ==
    /\ FmtDone /\ WellFormedObject(inSchema, inIndent)
    /\ ~Has(inSchema, "$ref") /\ ~HasComposition(inSchema)
    /\ Len(Item(inSchema, "properties")[2]) = 2
    /\ ListedRequired(inSchema, "a")
    /\ ~Raised(fmtResult)
    /\ \E i \in 1..Len(FmtLines) :
          FmtLines[i] = Line(inIndent, "  - {}{}:", <<PyStr("a"), PyStr(" (required)")>>)

\* the keywords in the order the claim fixes
FixedOrder == <<"allOf", "anyOf", "oneOf">>

CompositionHeader(key, ind) == Line(ind, "{}:", <<PyStr(key)>>)

\* one keyword is rendered: one header at the indent, then the elements of
\* its list at indent + 1, or the diagnostic when its value is no list
KeywordRendered(s, key, ind, lines) ==
    /\ Cardinality(IndexesOf(lines, CompositionHeader(key, ind))) = 1
    /\ LET h == CHOOSE i \in IndexesOf(lines, CompositionHeader(key, ind)) : TRUE
           body == IF IsList(Item(s, key))
                   THEN LinesOfEach(Item(s, key)[2], ind + 1)
                   ELSE <<Line(ind, "  Invalid '{}' format: Expected list, got {}",
                               <<PyStr(key), PyStr(TypeOf(Item(s, key)))>>)>>
       IN  /\ Len(lines) >= h + Len(body)
           /\ SubSeq(lines, h + 1, h + Len(body)) = body

\* the headers of the keywords present come in the fixed order
HeadersInFixedOrder(s, ind, lines) ==
    \A a, b \in 1..Len(FixedOrder) :
        (a < b /\ Has(s, FixedOrder[a]) /\ Has(s, FixedOrder[b]))
            => \A i \in IndexesOf(lines, CompositionHeader(FixedOrder[a], ind)) :
               \A j \in IndexesOf(lines, CompositionHeader(FixedOrder[b], ind)) : i < j

CompositionRendered(s, ind, lines) ==
    /\ \A a \in 1..Len(FixedOrder) :
          Has(s, FixedOrder[a]) => KeywordRendered(s, FixedOrder[a], ind, lines)
    /\ HeadersInFixedOrder(s, ind, lines)

\* C7 (as claimed): for every mapping that contains composition keywords,
\* the lines returned render the keywords present in the fixed order allOf,
\* anyOf, oneOf, whatever their order in the mapping, each as a header line
\* followed by its list elements formatted at indent + 1.
C7_CompositionOfEveryMapping ==
    (FmtDone /\ IsDict(inSchema) /\ HasComposition(inSchema) /\ ~Raised(fmtResult))
        => CompositionRendered(inSchema, inIndent, FmtLines)

\* C7 (amended): the same, for the mappings that hold composition keywords
\* and no '$ref' (with '$ref' the keywords are printed as flat "key: value"
\* lines in the mapping's own order); a keyword whose value is not a list
\* gets its header followed by one diagnostic line.
C7_CompositionWithoutRef ==
    (FmtDone /\ IsDict(inSchema) /\ HasComposition(inSchema) /\ ~Has(inSchema, "$ref")
             /\ ~Raised(fmtResult))
        => CompositionRendered(inSchema, inIndent, FmtLines)

\* C7 witness: a mapping that lists oneOf before allOf was formatted and the
\* allOf header precedes the oneOf header.
C7_Witness ==
    /\ FmtDone /\ IsDict(inSchema) /\ ~Has(inSchema, "$ref") /\ ~Raised(fmtResult)
    /\ Len(inSchema[2]) >= 2
    /\ inSchema[2][1][1] = "oneOf" /\ inSchema[2][2][1] = "allOf"
    /\ \E i, j \in 1..Len(FmtLines) :
          /\ i < j
          /\ FmtLines[i] = CompositionHeader("allOf", inIndent)
          /\ FmtLines[j] = CompositionHeader("oneOf", inIndent)

(***************************************************************************)
(* Claims about the parameters table, checked under SpecParams.            *)
(***************************************************************************)
TableDone == tablePc = "done"

\* path-level parameters first, then operation-level ones
ParamsIn == pathParams \o opParams

\* a mapping with both 'name' and 'in'
Keyed(param) == IsDict(param) /\ Has(param, "name") /\ Has(param, "in")
KeyOf(param) == <<Item(param, "name"), Item(param, "in")>>
KeyedIndexes == {i \in 1..Len(ParamsIn) : Keyed(ParamsIn[i])}
Keys == {KeyOf(ParamsIn[i]) : i \in KeyedIndexes}

\* the parameter a key stands for: the last one at operation level when
\* there is one, else the last one at path level
Winner(key) ==
    LET with == {i \in KeyedIndexes : KeyOf(ParamsIn[i]) = key}
    IN  ParamsIn[CHOOSE i \in with : \A j \in with : j <= i]

\* the rows under the header of the table written, none without a table
TableRows ==
    LET tables == {i \in 1..Len(tableDoc.doc) : tableDoc.doc[i][1] = "table"}
    IN  IF tables = {} THEN <<>>
        ELSE Tail(tableDoc.doc[CHOOSE i \in tables : TRUE][3])

\* the row shows the parameter: its description, required flag and schema
Shows(row, param) ==
    LET schema_value == Get(param, "schema", PyDict(<<>>))
    IN  /\ row[3] = PyStr(ToStr(Get(param, "required", PyBool(FALSE))))
        /\ row[4] = Get(param, "description", PyStr(""))
        /\ IF Truthy(schema_value)
           THEN /\ ~Raised(format_schema(schema_value, 0))
                /\ row[5] = PyStr(JoinLines(RenderLines(format_schema(schema_value, 0)[2])))
           ELSE row[5] = Get(param, "type", PyStr("N/A"))

\* C5: the parameters table of an operation has exactly one row per
\* distinct (name, in) key among the path-level and operation-level
\* parameters that are mappings with both 'name' and 'in', and the row of a
\* key shows the operation-level parameter when both levels have the key.
C5_OneRowPerKey ==
    TableDone =>
        /\ Len(TableRows) = Cardinality(Keys)
        /\ \A key \in Keys :
              \E i \in 1..Len(TableRows) :
                  /\ TableRows[i][1] = key[1]
                  /\ TableRows[i][2] = key[2]
                  /\ Shows(TableRows[i], Winner(key))

(***************************************************************************)
(* Claims about the documents and the main loop, checked under Spec and    *)
(* FairSpec.                                                               *)
(***************************************************************************)
Returned == pc = "returned"
Prefix(a, b) == Len(a) <= Len(b) /\ SubSeq(b, 1, Len(a)) = a
StartsWith(text, head) == Len(head) <= Len(text) /\ SubSeq(text, 1, Len(head)) = head
LastSave == saves[Len(saves)]
SavesOf(i) == {n \in 1..Len(saves) : saves[n][1] = i}

\* the file was opened and decoded: the document is assembled from it
Assembled(file) == Opens(file) /\ Supported(FileName(file)) /\ Decodes(file)

\* the headings of the operations of a specification
OperationTitles(spec) ==
    IF ~IsDict(spec) \/ ~IsDict(Get(spec, "paths", PyNone)) THEN {}
    ELSE LET paths == Item(spec, "paths")[2]
         IN  UNION {
               IF ~IsDict(paths[i][2]) THEN {}
               ELSE {OperationHeading(paths[i][2][2][j][1], paths[i][1]) :
                       j \in {k \in 1..Len(paths[i][2][2]) :
                                /\ IsHttpMethod(paths[i][2][2][k][1])
                                /\ IsDict(paths[i][2][2][k][2])}}
               : i \in 1..Len(paths)}

\* the headings of the named schemas of a specification
SchemaTitles(spec) ==
    LET named == IF ~IsDict(spec) THEN PyNone
                 ELSE IF IsDict(Get(spec, "components", PyNone))
                         /\ Has(Item(spec, "components"), "schemas")
                 THEN Item(Item(spec, "components"), "schemas")
                 ELSE Get(spec, "definitions", PyNone)
    IN  IF IsDict(named) THEN {PyStr(named[2][i][1]) : i \in 1..Len(named[2])} ELSE {}

\* the title stands in the document, as a heading or as its fallback
Rendered(title) ==
    \E i \in 1..Len(document) :
        /\ document[i][1] \in {"heading", "paragraph"}
        /\ document[i][3] \in {title, Sanitized(title)}

\* C3: a failure while rendering one element never aborts the rest of the
\* document: when parse_and_write_doc returns for a decoded file, every
\* operation and every named schema of the specification is rendered.
C3_LaterElementsRendered ==
    (Returned /\ Assembled(CurrentFile)) =>
        \A title \in OperationTitles(Content(CurrentFile))
                       \cup SchemaTitles(Content(CurrentFile)) :
            Rendered(title)

\* the step that ends the handling of a file counts it once
CountedOnce ==
    \/ /\ fileIdx' = fileIdx
       /\ files_processed_count' = files_processed_count
       /\ files_failed_count' = files_failed_count
    \/ /\ fileIdx' = fileIdx + 1
       /\ IF Exists(CurrentFile) /\ result = "success"
          THEN /\ files_processed_count' = files_processed_count + 1
               /\ files_failed_count' = files_failed_count
          ELSE /\ files_failed_count' = files_failed_count + 1
               /\ files_processed_count' = files_processed_count

\* a file is reported as a success only after its document was saved
SuccessIsSaved ==
    result = "success" =>
        /\ saves # <<>>
        /\ LastSave = <<fileIdx, OutputFilename(FileName(CurrentFile)), document, TRUE>>

\* the steps left to the summary: the files to come, then the steps to come
\* for the current file
StepsLeft ==
    (Len(api_files) + 1 - fileIdx) * 12
    + (CASE pc = "loop" -> 11
         [] pc = "read" -> 10
         [] pc = "title" -> 9
         [] pc = "info" -> 8
         [] pc = "servers" -> 7
         [] pc = "paths" -> 6
         [] pc = "schemas" -> 5
         [] pc = "save" -> 4
         [] pc = "critical" -> 3
         [] pc = "returned" -> 2
         [] pc = "done" -> 0)

\* C4: the files are handled one at a time in list order, each file
\* increments exactly one of the two counters exactly once, a missing or
\* failing file increments the failure counter, every step brings the
\* summary closer whatever happened to the files before, and at the summary
\* successes + failures is the number of listed files.
C4_EveryFileCountedOnce ==
    /\ [](/\ fileIdx \in 1..(Len(api_files) + 1)
          /\ files_processed_count + files_failed_count = fileIdx - 1
          /\ SuccessIsSaved
          /\ pc = "done" =>
                files_processed_count + files_failed_count = Len(api_files))
    /\ [][CountedOnce /\ StepsLeft' < StepsLeft]_vars

\* C4 witness: a missing file first, then a file processed and counted as a
\* success, at the summary.
C4_Witness ==
    /\ pc = "done"
    /\ Len(api_files) = 2
    /\ ~Exists(api_files[1])
    /\ files_failed_count = 1
    /\ files_processed_count = 1

\* C8: every text handed to the document library has been sanitized: it is
\* a string without a character below 32 other than tab, newline and
\* carriage return, None having become the empty string.
C8_HandedTextSanitized ==
    \A i \in 1..Len(handed) : Clean(handed[i])

\* the error document: the error heading and the error paragraph only
OnlyErrorReport(file) ==
    /\ Len(document) = 2
    /\ document[1] = <<"heading", "1", PyStr("Error processing: " \o Basename(FileName(file)))>>
    /\ document[2][1] = "paragraph"
    /\ StartsWith(document[2][3][2], "Could not read or parse the file. Error: ")

\* the save of the error document was attempted, once
ErrorReportSaved ==
    /\ saves # <<>>
    /\ LastSave[1] = fileIdx
    /\ LastSave[2] = OutputFilename(FileName(CurrentFile))
    /\ LastSave[3] = document
    /\ Cardinality(SavesOf(fileIdx)) = 1

\* C9 as stated: a missing file or a file with an unrecognized extension is
\* skipped and no document is saved for it; a file that cannot be opened or
\* decoded gets the error document; each is a failure.
C9_UnrecognizedExtensionNeverSaved ==
    /\ \A n \in 1..Len(saves) :
          saves[n][4] =>
              /\ Exists(api_files[saves[n][1]])
              /\ Supported(FileName(api_files[saves[n][1]]))
    /\ (Returned /\ ~Supported(FileName(CurrentFile))) => result = "failure"
    /\ (Returned /\ Supported(FileName(CurrentFile)) /\ ~Assembled(CurrentFile)) =>
          /\ OnlyErrorReport(CurrentFile)
          /\ ErrorReportSaved
          /\ result = "failure"

AssemblySteps == {"title", "info", "servers", "paths", "schemas"}

\* what the handler appends for the current file
CriticalHeading ==
    <<"heading", "1", PyStr("Critical Error in: " \o Basename(FileName(CurrentFile)))>>

CriticalParagraph(element) ==
    /\ element[1] = "paragraph"
    /\ StartsWith(element[3][2],
         "An unexpected error occurred while generating documentation for this file: ")

\* a failure escapes a section: what was written stays, the handler is next
Escapes ==
    (pc \in AssemblySteps /\ failure' # "") =>
        (pc' = "critical" /\ Prefix(document, document'))

\* the handler: the error heading and paragraph after the content, a save
\* attempt of that document, the file reported as failed.  The heading is
\* claimed once content was written; the handler's other effects hold also
\* when the title itself failed and nothing was written.
Salvaged ==
    pc = "critical" =>
        /\ Len(document') = Len(document) + 2
        /\ Prefix(document, document')
        /\ document # <<>> => document'[Len(document) + 1] = CriticalHeading
        /\ CriticalParagraph(document'[Len(document) + 2])
        /\ Len(saves') = Len(saves) + 1
        /\ Prefix(saves, saves')
        /\ saves'[Len(saves')][1] = fileIdx
        /\ saves'[Len(saves')][2] = OutputFilename(FileName(CurrentFile))
        /\ saves'[Len(saves')][3] = document'
        /\ result' = "failure"
        /\ pc' = "returned"

\* the file reported as failed is counted as failed
ReportedFailed ==
    (Returned /\ result = "failure") =>
        (files_failed_count' = files_failed_count + 1
         /\ files_processed_count' = files_processed_count)

\* C10: when a failure escapes the assembly after content was written, the
\* content is kept, the error heading and paragraph are appended after it,
\* a save of the partial document is attempted and the file is reported as
\* failed; the content is never dropped without a save attempt.
C10_PartialDocumentSalvaged ==
    /\ [](failure # "" <=> pc = "critical")
    /\ [][Escapes /\ Salvaged /\ ReportedFailed]_vars

\* C10 witness: a file has returned from the handler with content before the
\* error heading, and the save of that document was attempted.
C10_Witness ==
    /\ Returned
    /\ Len(document) > 3
    /\ document[Len(document) - 1] = CriticalHeading
    /\ CriticalParagraph(document[Len(document)])
    /\ \E i \in 1..(Len(document) - 2) : document[i][1] = "table"
    /\ saves # <<>> /\ LastSave[1] = fileIdx /\ LastSave[3] = document
    /\ result = "failure"

(***************************************************************************)
(* The top-level sections.  A specification is drawn for every combination *)
(* of its five section keys, each absent or present (the servers also as   *)
(* an empty list, the components also without 'schemas'), with the keys in *)
(* the order of the sections or in the reverse order, and is processed as  *)
(* the only file of the list.                                              *)
(***************************************************************************)
SectionKeys == <<"info", "servers", "paths", "components", "definitions">>

SectionVariants ==
    [info |-> {"absent", "present"},
     servers |-> {"absent", "empty", "present"},
     paths |-> {"absent", "present"},
     components |-> {"absent", "other", "schemas"},
     definitions |-> {"absent", "present"}]

SectionChoices ==
    [info : SectionVariants.info, servers : SectionVariants.servers,
     paths : SectionVariants.paths, components : SectionVariants.components,
     definitions : SectionVariants.definitions]

\* the value a key has in the specification
SectionValue(key, variant) ==
    CASE key = "info" ->
           PyDict(<< <<"title", PyStr("T")>>, <<"version", PyStr("2")>> >>)
      [] key = "servers" /\ variant = "empty" -> PyList(<<>>)
      [] key = "servers" /\ variant = "present" ->
           PyList(<< PyDict(<< <<"url", PyStr("https://a")>> >>) >>)
      [] key = "paths" ->
           PyDict(<< <<"/p", PyDict(<< <<"get", PyDict(<< <<"responses",
               PyDict(<< <<"200", PyDict(<<>>)>> >>)>> >>)>> >>)>> >>)
      [] key = "components" /\ variant = "other" ->
           PyDict(<< <<"responses", PyDict(<<>>)>> >>)
      [] key = "components" /\ variant = "schemas" ->
           PyDict(<< <<"schemas", PyDict(<< <<"C", StringSchema>>,
                                            <<"E", RefSchema>> >>)>> >>)
      [] key = "definitions" -> PyDict(<< <<"D", StringSchema>> >>)

RECURSIVE SectionEntries(_, _, _)
SectionEntries(choice, keys, reversed) ==
    IF Len(keys) = 0 THEN <<>>
    ELSE LET key == keys[1]
             entry == IF choice[key] = "absent" THEN <<>>
                      ELSE << <<key, SectionValue(key, choice[key])>> >>
             rest == SectionEntries(choice, Tail(keys), reversed)
         IN  IF reversed THEN rest \o entry ELSE entry \o rest

SectionSpec(choice, reversed) == PyDict(SectionEntries(choice, SectionKeys, reversed))

\* the files of the list: one specification, or a file that is missing, of
\* an unrecognized extension, undecodable, or decoded to a list
SectionFiles ==
    {<<"sections.yaml", TRUE, TRUE, TRUE, SectionSpec(choice, reversed)>> :
        choice \in SectionChoices, reversed \in BOOLEAN}
    \cup {FileList[i] : i \in {k \in 1..Len(FileList) :
            FileName(FileList[k]) \in {"missing.json", "notes.txt",
                                       "bad.json", "list.json"}}}

InitSections ==
    /\ api_files \in {<<file>> : file \in SectionFiles}
    /\ fileIdx = 1
    /\ pc = "loop"
    /\ document = <<>> /\ handed = <<>> /\ failure = "" /\ result = "none"
    /\ saves = <<>>
    /\ files_processed_count = 0
    /\ files_failed_count = 0
    /\ strict \in BOOLEAN
    /\ formatIdle /\ tableIdle

SpecSections == InitSections /\ [][Next]_vars

(***************************************************************************)
(* C11: the order of the sections, absent sections, the schemas' source.   *)
(***************************************************************************)
\* the title and the section headings: the headings of levels 0 and 1
IsSectionHeading(element) == element[1] = "heading" /\ element[2] \in {"0", "1"}

\* the heading of a named schema, or the bold paragraph that stands for it
\* when the library refuses the heading
IsSchemaHeading(element) ==
    \/ element[1] = "heading" /\ element[2] = "2"
    \/ element[1] = "paragraph" /\ element[2] = "bold"

SectionHeadings == SelectSeq(document, IsSectionHeading)

HeadingTexts(headings) == [i \in 1..Len(headings) |-> headings[i][3][2]]

\* components.schemas is present
HasComponentSchemas(spec) ==
    /\ Has(spec, "components")
    /\ IsDict(Item(spec, "components"))
    /\ Has(Item(spec, "components"), "schemas")

\* the section titles a specification calls for, in the fixed order
SectionsOf(file) ==
    LET spec == Content(file)
    IN  <<"API Specification: " \o Basename(FileName(file))>>
        \o (IF Has(spec, "info") THEN <<"General Information">> ELSE <<>>)
        \o (IF Has(spec, "servers") /\ Truthy(Item(spec, "servers"))
            THEN <<"Servers">> ELSE <<>>)
        \o (IF Has(spec, "paths") THEN <<"API Endpoints">> ELSE <<>>)
        \o (IF HasComponentSchemas(spec) THEN <<"Schemas (Components)">>
            ELSE IF Has(spec, "definitions") THEN <<"Definitions">>
            ELSE <<>>)

\* the names of the schemas the section is to show
SchemaNamesOf(spec) ==
    LET named == IF HasComponentSchemas(spec)
                 THEN Item(Item(spec, "components"), "schemas")
                 ELSE Get(spec, "definitions", PyNone)
    IN  IF IsDict(named) THEN [i \in 1..Len(named[2]) |-> named[2][i][1]] ELSE <<>>

\* the level-2 headings that follow the heading of the schemas section
SchemaHeadingsShown ==
    LET at == {i \in 1..Len(document) :
                 /\ IsSectionHeading(document[i])
                 /\ document[i][3][2] \in {"Schemas (Components)", "Definitions"}}
    IN  IF at = {} THEN <<>>
        ELSE LET k == CHOOSE i \in at : \A j \in at : j <= i
             IN  [i \in 1..Len(SelectSeq(SubSeq(document, k + 1, Len(document)),
                                         IsSchemaHeading)) |->
                    Sanitize(SelectSeq(SubSeq(document, k + 1, Len(document)),
                                       IsSchemaHeading)[i][3][2])]

\* the assembly of the current file ran to its end
CompleteAssembly ==
    /\ fileIdx <= Len(api_files)
    /\ IsDict(Content(CurrentFile))
    /\ pc = "save" \/ (Returned /\ result = "success")

\* the key of the section that is about to be built is absent
SectionKeyAbsent ==
    LET spec == Content(CurrentFile)
    IN  /\ fileIdx <= Len(api_files)
        /\ IsDict(spec)
        /\ CASE pc = "info" -> ~Has(spec, "info")
             [] pc = "servers" -> ~Has(spec, "servers")
             [] pc = "paths" -> ~Has(spec, "paths")
             [] pc = "schemas" -> ~HasComponentSchemas(spec) /\ ~Has(spec, "definitions")
             [] OTHER -> FALSE

\* the step of an absent section adds nothing and raises nothing
AbsentSkipped ==
    SectionKeyAbsent =>
        /\ document' = document
        /\ handed' = handed
        /\ failure' = ""
        /\ pc' # "critical"

\* C11: in a completely assembled document of a specification that is a
\* mapping, the title and the section headings are those of the present
\* sections in the order Title, General Information, Servers, API
\* Endpoints, Schemas/Definitions, and nothing stands between the title and
\* the first section heading; the step of a section whose key is absent
\* leaves the document as it is and raises nothing; the schemas shown are
\* those of components.schemas when that is present, of 'definitions'
\* otherwise.
C11_SectionsInFixedOrder ==
    /\ [](CompleteAssembly =>
            /\ HeadingTexts(SectionHeadings) = SectionsOf(CurrentFile)
            /\ \A i \in 1..Len(SectionHeadings) :
                   SectionHeadings[i][2] = (IF i = 1 THEN "0" ELSE "1")
            /\ Len(document) > 1 => IsSectionHeading(document[2])
            /\ SchemaHeadingsShown =
                  [i \in 1..Len(SchemaNamesOf(Content(CurrentFile))) |->
                      Sanitize(SchemaNamesOf(Content(CurrentFile))[i])])
    /\ [][AbsentSkipped]_vars

\* C11 witness: a specification whose keys come in the reverse order and
\* that has both components.schemas and 'definitions' is assembled: five
\* headings in the fixed order, the schemas of components.schemas.
C11_Witness ==
    /\ pc = "save"
    /\ IsDict(Content(CurrentFile))
    /\ Len(Content(CurrentFile)[2]) > 0
    /\ Content(CurrentFile)[2][1][1] = "definitions"
    /\ HasComponentSchemas(Content(CurrentFile))
    /\ HeadingTexts(SectionHeadings) =
          <<"API Specification: sections.yaml", "General Information", "Servers",
            "API Endpoints", "Schemas (Components)">>
    /\ SchemaHeadingsShown = <<"C", "E">>

(***************************************************************************)
(* C12: the branches of format_schema exclude one another.  Checked under  *)
(* SpecFmt.  A line is told by the statement that wrote it (its template)  *)
(* and belongs to the schema's own level when its indent is that of the    *)
(* call.                                                                   *)
(***************************************************************************)
\* the branch whose statement wrote the line, "none" for the other lines
BranchOfLine(line) ==
    CASE line[2] = "Reference: {}" -> "ref"
      [] line[2] = "{}:" -> "composition"
      [] line[2] = "Type: object" -> "object"
      [] line[2] = "Type: array" -> "array"
      [] line[2] = "Type: {}" -> "leaf"
      [] OTHER -> "none"

\* the branch the claim's order selects: the first that matches
FirstMatch(s) ==
    IF Has(s, "$ref") THEN "ref"
    ELSE IF \E a \in 1..Len(FixedOrder) : Has(s, FixedOrder[a]) THEN "composition"
    ELSE IF Get(s, "type", PyStr("any")) = PyStr("object") THEN "object"
    ELSE IF Get(s, "type", PyStr("any")) = PyStr("array") THEN "array"
    ELSE "leaf"

OwnLines == {i \in 1..Len(FmtLines) : FmtLines[i][1] = inIndent}

\* the branches that wrote a line at the schema's own level
BranchesRun == {BranchOfLine(FmtLines[i]) : i \in OwnLines} \ {"none"}

OwnTemplates == {FmtLines[i][2] : i \in OwnLines}

TypeTemplates == {"Type: object", "Type: array", "Type: {}"}
PropertiesTemplates == {"Properties:", "Properties: Invalid format ({})"}
ItemsTemplates == {"Items:", "Items: (Not specified)"}

\* C12: for every mapping schema that is formatted, the lines at its own
\* level come from exactly one branch, the first that matches in the order
\* $ref, composition keyword, type 'object', type 'array', leaf; with '$ref'
\* there is no composition header followed by formatted elements, no
\* "Type:" line and no "Properties:" block; with a composition keyword and
\* no '$ref' there is no "Type:" line, no "Properties:" block and no
\* "Items:" block at its own level.
C12_OneBranchFirstMatch ==
    (FmtDone /\ IsDict(inSchema) /\ ~Raised(fmtResult)) =>
        /\ BranchesRun = {FirstMatch(inSchema)}
        /\ Has(inSchema, "$ref") =>
              /\ OwnTemplates \cap (TypeTemplates \cup PropertiesTemplates) = {}
              /\ \A a \in 1..Len(FixedOrder) :
                    /\ IndexesOf(FmtLines, CompositionHeader(FixedOrder[a], inIndent)) = {}
                    /\ \A i \in 1..Len(FmtLines) : FmtLines[i][1] = inIndent
        /\ (FirstMatch(inSchema) = "composition") =>
              OwnTemplates \cap (TypeTemplates \cup PropertiesTemplates
                                  \cup ItemsTemplates) = {}

\* C12 witness: a mapping with '$ref', a composition keyword and a type was
\* formatted: the reference line and the two other keys as flat lines.
C12_Witness ==
    /\ FmtDone /\ IsDict(inSchema) /\ ~Raised(fmtResult)
    /\ Has(inSchema, "$ref") /\ Has(inSchema, "allOf")
    /\ Has(inSchema, "type") /\ Item(inSchema, "type") = PyStr("object")
    /\ Len(FmtLines) = 3
    /\ BranchesRun = {"ref"}
    /\ Cardinality({i \in 1..Len(FmtLines) : FmtLines[i][2] = "{}: {}"}) = 2

(***************************************************************************)
(* C13: what parse_and_write_doc reports.  Checked under Spec.             *)
(***************************************************************************)
\* the save attempted by the step, and whether it succeeded
SavedNow == Len(saves') = Len(saves) + 1
SavedNowOk == SavedNow /\ saves'[Len(saves')][4]

\* the assembly is entered by decoding only, and moves on section by
\* section; the save is reached from the last section with no failure
AssemblyRunsToEnd ==
    /\ (pc' = "title" /\ pc # "title") => (pc = "read" /\ Assembled(CurrentFile))
    /\ (pc' = "info" /\ pc # "info") => pc = "title"
    /\ (pc' = "servers" /\ pc # "servers") => pc = "info"
    /\ (pc' = "paths" /\ pc # "paths") => pc = "servers"
    /\ (pc' = "schemas" /\ pc # "schemas") => pc = "paths"
    /\ (pc' = "save" /\ pc # "save") => (pc = "schemas" /\ failure' = "")
    /\ (pc \in AssemblySteps /\ pc' # pc) =>
          (pc' = "critical" <=> failure' # "")

\* the return: success exactly from the final save when it succeeded
ReportedOnReturn ==
    (pc' = "returned" /\ pc # "returned") =>
        /\ result' \in {"success", "failure"}
        /\ result' = "success" <=> (pc = "save" /\ SavedNowOk)
        /\ pc = "save" =>
              (SavedNow /\ saves'[Len(saves')][1] = fileIdx
                        /\ saves'[Len(saves')][3] = document /\ document' = document)
        /\ pc \in {"read", "critical"} => result' = "failure"

\* the loop counts a success exactly for a reported success
SuccessCounted ==
    (fileIdx' = fileIdx + 1) =>
        /\ (files_processed_count' = files_processed_count + 1)
              <=> (pc = "returned" /\ result = "success")
        /\ (files_failed_count' = files_failed_count + 1)
              <=> ~(pc = "returned" /\ result = "success")

\* C13: processing one file reports success, and the success counter is
\* incremented, if and only if the specification was decoded, every section
\* of the assembly ran with no failure escaping, and the final save
\* succeeded; the returns after an unsupported extension, a read or decode
\* failure, a critical failure or a failed save report failure, also when
\* the error document or the partial document was saved.
C13_SuccessIffSavedComplete ==
    /\ [](/\ pc \in AssemblySteps \cup {"save", "critical"} => Assembled(CurrentFile)
          /\ Returned => result \in {"success", "failure"}
          /\ result = "success" => (Returned /\ Assembled(CurrentFile)))
    /\ [][AssemblyRunsToEnd /\ ReportedOnReturn /\ SuccessCounted]_vars

\* C13 witness: after a first file was counted as a success, the second
\* file's assembly failed, its partial document was saved, and the file is
\* reported as failed.
C13_Witness ==
    /\ Returned
    /\ fileIdx = 2
    /\ files_processed_count = 1 /\ files_failed_count = 0
    /\ Assembled(CurrentFile)
    /\ result = "failure"
    /\ saves # <<>> /\ LastSave[1] = 2 /\ LastSave[4]
    /\ Len(document) > 2
    /\ document[Len(document) - 1] = CriticalHeading


====
